---- MODULE Spec2Model ----
(***************************************************************************)
(* Model of the billing page (src/src/pages/BillingPage.tsx), the         *)
(* inventory page (src/src/pages/InventoryPage.tsx) and the customer page  *)
(* (src/src/pages/CustomerPage.tsx) of the auto-parts billing front end,   *)
(* with the parts of services/api (src/unnamed/part_001) their handlers    *)
(* call.                                                                   *)
(*                                                                         *)
(* JavaScript numbers are modelled as fixed-point integers with Scale      *)
(* units per 1 (two decimals).  The inputs enumerated below are chosen so  *)
(* that every product and quotient the page computes is exact at that      *)
(* precision.                                                              *)
(***************************************************************************)
EXTENDS Integers, Sequences, FiniteSets, TLC

VARIABLES
    parts,              \* useQuery(["parts"]).data, default []
    isLoadingParts,     \* useQuery(["parts"]).isLoading
    partsError,         \* useQuery(["parts"]).error is set
    customers,          \* useQuery(["customers"]).data, default []
    isLoadingCustomers, \* useQuery(["customers"]).isLoading
    customersError,     \* useQuery(["customers"]).error is set
    selectedCustomer,   \* useState<any>({})
    invoiceItems,       \* useState<InvoiceItem[]>([])
    selectedPart,       \* useState<string>("")
    quantity,           \* useState<number>(1)
    discount,           \* useState<number>(0)
    tax,                \* useState<number>(8)
    subtotal,           \* the four totals of the current render
    taxAmount,
    totalDiscount,
    total,
    currentBillData,    \* useState<any>(null)
    isBillPreviewOpen,  \* useState(false)
    createInvoiceCall,  \* body of the last POST /invoices issued, or NoCall
    notes,              \* useState<string>("")
    invoiceNumber,      \* useState<string>(`INV-${year}-${random}`)
    customerSearch,     \* useState('')
    isCustomerDialogOpen, \* useState(false)
    customerSubmit,     \* where a running onCustomerSubmit stands
    inventoryPage,      \* the state of InventoryPage, one field per hook
    customerPage,       \* the state of CustomerPage, one field per hook
    localStorage,       \* window.localStorage: a function from the keys present to their values
    apiCall,            \* the last invocation of a services/api function: its requests and how it ended
    router,             \* the router: isAuthenticated() when it was created, and the location
    loginPage,          \* the state of LoginPage and its handlers in flight
    invoicePage,        \* the state of InvoicePage, one field per hook, and the rows it shows
    op,                 \* the handler that ran last, "" after a query result or an input change
    toast               \* description of the toast that handler emitted, "" if none

vars == <<parts, isLoadingParts, partsError, customers, isLoadingCustomers,
          customersError, selectedCustomer, invoiceItems, selectedPart,
          quantity, discount, tax, subtotal, taxAmount, totalDiscount, total,
          currentBillData, isBillPreviewOpen, createInvoiceCall, notes,
          invoiceNumber, customerSearch, isCustomerDialogOpen, customerSubmit,
          inventoryPage, customerPage, localStorage, apiCall, router,
          loginPage, invoicePage, op, toast>>

----------------------------------------------------------------------------
(* Numbers *)

Scale == 100

N(x) == x * Scale

Mul(a, b) == (a * b) \div Scale

Div(a, b) == (a * Scale) \div b

\* !x for a number x (NaN is not produced by the inputs modelled)
FalsyNumber(x) == x = 0

----------------------------------------------------------------------------
(* Bounds and input domains *)

MaxItems == 2

\* longest line list the list operations are applied to
MaxLines == 3

\* values a user can leave in the quantity field: 1, 0, -1, 1.5
Quantities == {N(1), 0, -N(1), 150}

\* values a user can leave in the discount field: 0, 5, -5
Discounts == {0, N(5), -N(5)}

\* values a user can leave in the tax rate field: 8, 0, 110
TaxRates == {N(8), 0, N(110)}

----------------------------------------------------------------------------
(* JavaScript values held by selectedCustomer: a string or an object *)

Undefined == "undefined"

\* {} : every property read gives undefined
EmptyObject == [_id |-> Undefined, name |-> Undefined, phone |-> Undefined]

JSString(s) == [type |-> "string", str |-> s, obj |-> EmptyObject]

JSObject(o) == [type |-> "object", str |-> "", obj |-> o]

\* !v is false for every object and for every non-empty string
Truthy(v) == v.type = "object" \/ v.str # ""

\* s === v for a string s
StrictEqualsString(s, v) == v.type = "string" /\ v.str = s

NoCall == <<>>

NoBill == <<>>

----------------------------------------------------------------------------
(* Strings *)

\* the characters of the strings that are searched or typed into a search
\* field; a string is searched as the sequence of its characters
Chars(s) ==
    CASE s = "" -> << >>
      [] s = "INV-2023-001" -> <<"I", "N", "V", "-", "2", "0", "2", "3", "-", "0", "0", "1">>
      [] s = "INV-2023-002" -> <<"I", "N", "V", "-", "2", "0", "2", "3", "-", "0", "0", "2">>
      [] s = "INV-2023-003" -> <<"I", "N", "V", "-", "2", "0", "2", "3", "-", "0", "0", "3">>
      [] s = "sujeeth" -> <<"s", "u", "j", "e", "e", "t", "h">>
      [] s = "yella" -> <<"y", "e", "l", "l", "a">>
      [] s = "SUJ" -> <<"S", "U", "J">>
      [] s = "003" -> <<"0", "0", "3">>
      [] s = "inv-2026" -> <<"i", "n", "v", "-", "2", "0", "2", "6">>
      [] s = "INV-2026-001" -> <<"I", "N", "V", "-", "2", "0", "2", "6", "-", "0", "0", "1">>
      [] s = "Asha" -> <<"A", "s", "h", "a">>
      [] s = "Ravi" -> <<"R", "a", "v", "i">>
      [] s = "Asha K" -> <<"A", "s", "h", "a", " ", "K">>
      [] s = "Meena" -> <<"M", "e", "e", "n", "a">>
      [] s = "+911" -> <<"+", "9", "1", "1">>
      [] s = "+912" -> <<"+", "9", "1", "2">>
      [] s = "+913" -> <<"+", "9", "1", "3">>
      [] s = "Brake Pad" -> <<"B", "r", "a", "k", "e", " ", "P", "a", "d">>
      [] s = "BP-1" -> <<"B", "P", "-", "1">>
      [] s = "Brakes" -> <<"B", "r", "a", "k", "e", "s">>
      [] s = "Bosch" -> <<"B", "o", "s", "c", "h">>
      [] s = "Oil Filter" -> <<"O", "i", "l", " ", "F", "i", "l", "t", "e", "r">>
      [] s = "OF-2" -> <<"O", "F", "-", "2">>
      [] s = "Engine" -> <<"E", "n", "g", "i", "n", "e">>
      [] s = "Mann" -> <<"M", "a", "n", "n">>
      [] s = "12 Lake Road" -> <<"1", "2", " ", "L", "a", "k", "e", " ", "R", "o", "a", "d">>
      [] s = "Pune" -> <<"P", "u", "n", "e">>
      [] s = "MH" -> <<"M", "H">>
      [] s = "41100" -> <<"4", "1", "1", "0", "0">>
      [] s = "India" -> <<"I", "n", "d", "i", "a">>
      [] s = "7 Hill Street" -> <<"7", " ", "H", "i", "l", "l", " ", "S", "t", "r", "e", "e", "t">>
      [] s = "Salem" -> <<"S", "a", "l", "e", "m">>
      [] s = "TN" -> <<"T", "N">>
      [] s = "63600" -> <<"6", "3", "6", "0", "0">>
      [] s = "brake" -> <<"b", "r", "a", "k", "e">>
      [] s = "OIL" -> <<"O", "I", "L">>
      [] s = "of-2" -> <<"o", "f", "-", "2">>
      [] s = "bosch" -> <<"b", "o", "s", "c", "h">>
      [] s = "engine" -> <<"e", "n", "g", "i", "n", "e">>
      [] s = "xyz" -> <<"x", "y", "z">>
      [] s = "ash" -> <<"a", "s", "h">>
      [] s = "RAVI" -> <<"R", "A", "V", "I">>
      [] s = "912" -> <<"9", "1", "2">>
      [] s = "lake" -> <<"l", "a", "k", "e">>
      [] s = "tn" -> <<"t", "n">>
      [] s = "INDIA" -> <<"I", "N", "D", "I", "A">>
      [] s = "636" -> <<"6", "3", "6">>
      [] s = "pune" -> <<"p", "u", "n", "e">>

\* one character of String.prototype.toLowerCase
LowerCaseOf(ch) ==
    CASE ch = "A" -> "a"
      [] ch = "B" -> "b"
      [] ch = "C" -> "c"
      [] ch = "D" -> "d"
      [] ch = "E" -> "e"
      [] ch = "F" -> "f"
      [] ch = "G" -> "g"
      [] ch = "H" -> "h"
      [] ch = "I" -> "i"
      [] ch = "J" -> "j"
      [] ch = "K" -> "k"
      [] ch = "L" -> "l"
      [] ch = "M" -> "m"
      [] ch = "N" -> "n"
      [] ch = "O" -> "o"
      [] ch = "P" -> "p"
      [] ch = "Q" -> "q"
      [] ch = "R" -> "r"
      [] ch = "S" -> "s"
      [] ch = "T" -> "t"
      [] ch = "U" -> "u"
      [] ch = "V" -> "v"
      [] ch = "W" -> "w"
      [] ch = "X" -> "x"
      [] ch = "Y" -> "y"
      [] ch = "Z" -> "z"
      [] OTHER -> ch

\* String.prototype.toLowerCase
ToLowerCase(cs) == [i \in 1..Len(cs) |-> LowerCaseOf(cs[i])]

\* String.prototype.includes: the first position at which q occurs in cs is
\* looked for from the left
RECURSIVE IncludesFrom(_, _, _)
IncludesFrom(cs, q, pos) ==
    IF pos + Len(q) > Len(cs) THEN FALSE
    ELSE IF SubSeq(cs, pos + 1, pos + Len(q)) = q THEN TRUE
    ELSE IncludesFrom(cs, q, pos + 1)

Includes(cs, q) == IncludesFrom(cs, q, 0)

\* null
Null == << >>

----------------------------------------------------------------------------
(* What the collaborators can answer *)

Part(id, name, partNumber, price) ==
    [_id |-> id, name |-> name, partNumber |-> partNumber, price |-> price]

Customer(id, name, phone) == [_id |-> id, name |-> name, phone |-> phone]

\* GET /products: the catalog, the catalog after p1 was renamed and repriced,
\* and the catalog after p1 was deleted
Catalogs ==
    { << Part("p1", "Brake Pad", "BP-1", N(4)) >>,
      << Part("p1", "Brake Pad HD", "BP-1H", N(6)) >>,
      << >> }

\* GET /customers: the directory, and the directory after c1 was renamed and
\* c2 was deleted
CustomerLists ==
    { << Customer("c1", "Asha", "+911"), Customer("c2", "Ravi", "+912") >>,
      << Customer("c1", "Asha K", "+911") >> }

\* texts a user can leave in the notes field
Notes == {"", "urgent"}

\* the invoice number drawn when the page mounts
FirstInvoiceNumber == "INV-2026-001"

\* invoice numbers a user can type and numbers that can be drawn after a
\* successful submission
InvoiceNumbers == {"INV-2026-001", "INV-2026-002"}

\* texts a user can leave in the search field of the customer picker
CustomerSearches == {"", "ash", "RAVI", "912", "xyz"}

\* POST /customers: the created customer, or a body without _id
NewCustomers ==
    { Customer("c3", "Meena", "+913"),
      [_id |-> Undefined, name |-> "Meena", phone |-> "+913"] }

\* GET /customers after a customer was added from the billing page
CustomerListsAfterAdd ==
    CustomerLists \cup
    { << Customer("c1", "Asha", "+911"), Customer("c2", "Ravi", "+912"),
         Customer("c3", "Meena", "+913") >> }

\* a part as the inventory page reads it
StockPart(id, name, partNumber, category, manufacturer) ==
    [_id |-> id, name |-> name, partNumber |-> partNumber,
     category |-> category, manufacturer |-> manufacturer]

\* GET /products as the inventory page sees it: two parts, the catalog after
\* the first was deleted, and the empty catalog
InventoryCatalogs ==
    { << StockPart("p1", "Brake Pad", "BP-1", "Brakes", "Bosch"),
         StockPart("p2", "Oil Filter", "OF-2", "Engine", "Mann") >>,
      << StockPart("p2", "Oil Filter", "OF-2", "Engine", "Mann") >>,
      << >> }

\* texts a user can leave in the search field of the inventory page
SearchTerms == {"", "brake", "OIL", "of-2", "engine", "bosch", "xyz"}

\* a customer as the customer page reads it
CustomerWithAddress(id, name, phone, street, city, state, zipCode, country) ==
    [_id |-> id, name |-> name, phone |-> phone,
     address |-> [street |-> street, city |-> city, state |-> state,
                  zipCode |-> zipCode, country |-> country]]

\* the customers collection when the customer page mounts
Directory ==
    << CustomerWithAddress("c1", "Asha", "+911",
                           "12 Lake Road", "Pune", "MH", "41100", "India"),
       CustomerWithAddress("c2", "Ravi", "+912",
                           "7 Hill Street", "Salem", "TN", "63600", "India") >>

\* texts a user can leave in the search field of the customer page
SearchQueries == {"", "ash", "912", "lake", "pune", "tn", "636", "INDIA", "xyz"}

----------------------------------------------------------------------------
(* Pure helpers of the page *)

\* Array.prototype.find with the predicate p._id === id: the index of the
\* first match, 0 when there is none (find returns undefined)
FindIndexById(list, id) ==
    IF \E i \in 1..Len(list) : list[i]._id = id
    THEN CHOOSE i \in 1..Len(list) :
            /\ list[i]._id = id
            /\ \A j \in 1..(i - 1) : list[j]._id # id
    ELSE 0

\* Faulty variant of FindCustomerIndex: the first customer of the list is
\* taken whatever is selected
FindCustomerIndexFirst(list, sel) == IF Len(list) > 0 THEN 1 ELSE 0

\* customers.find((c) => c._id === selectedCustomer)
FindCustomerIndex(list, sel) ==
    IF \E i \in 1..Len(list) : StrictEqualsString(list[i]._id, sel)
    THEN CHOOSE i \in 1..Len(list) :
            /\ StrictEqualsString(list[i]._id, sel)
            /\ \A j \in 1..(i - 1) : ~StrictEqualsString(list[j]._id, sel)
    ELSE 0

\* Array.prototype.reduce((sum, item) => sum + f(item), 0), left to right
RECURSIVE Reduce(_, _, _)
Reduce(items, field, sum) ==
    IF items = << >> THEN sum
    ELSE Reduce(Tail(items), field, sum + Head(items)[field])

subtotalOf(items) == Reduce(items, "total", 0)

\* Faulty variant of taxAmountOf: the rate is taken as a factor, not a percentage
taxAmountOfNoPercent(sub, rate) == Mul(sub, rate)

taxAmountOf(sub, rate) == Div(Mul(sub, rate), N(100))

totalDiscountOf(items) == Reduce(items, "discount", 0)

totalOf(sub, taxAmt, disc) == sub + taxAmt - disc

\* const itemDiscount = discount || 0
itemDiscountOf(d) == IF FalsyNumber(d) THEN 0 ELSE d

\* Faulty variant of NewItem: a negative line total is clamped to 0
NewItemClamped(part, qty, d) ==
    [partId     |-> part._id,
     partName   |-> part.name,
     partNumber |-> part.partNumber,
     quantity   |-> qty,
     unitPrice  |-> part.price,
     discount   |-> itemDiscountOf(d),
     total      |-> IF Mul(part.price, qty) - itemDiscountOf(d) < 0
                    THEN 0
                    ELSE Mul(part.price, qty) - itemDiscountOf(d)]

\* the InvoiceItem addItem builds from the resolved part
NewItem(part, qty, d) ==
    [partId     |-> part._id,
     partName   |-> part.name,
     partNumber |-> part.partNumber,
     quantity   |-> qty,
     unitPrice  |-> part.price,
     discount   |-> itemDiscountOf(d),
     total      |-> Mul(part.price, qty) - itemDiscountOf(d)]

\* Faulty variant of Splice1: the last line is removed whatever the index
SpliceLast(items, index) == SubSeq(items, 1, Len(items) - 1)

\* const newItems = [...items]; newItems.splice(index, 1)   (index is 0-based)
Splice1(items, index) ==
    LET len   == Len(items)
        start == IF index < 0
                 THEN (IF len + index < 0 THEN 0 ELSE len + index)
                 ELSE (IF index > len THEN len ELSE index)
    IN  [i \in 1..(IF start < len THEN len - 1 ELSE len) |->
            IF i <= start THEN items[i] ELSE items[i + 1]]

ErrAddItem == "Please select a part and enter a valid quantity"

ErrNoCustomer == "Please select a customer"

ErrNoItems == "Please add at least one item to the invoice"

ErrGenerateBill == "Please select a customer and add parts to the bill."

OkCreateInvoice == "Invoice created successfully"

ErrCreateInvoice == "Failed to create invoice"

OkAddCustomer == "Customer added successfully"

ErrAddCustomer == "Failed to add customer"

\* the rows of the customer picker: customers?.filter(...) || []
filteredCustomers ==
    LET q == ToLowerCase(Chars(customerSearch))
        Test(c) == Includes(ToLowerCase(Chars(c.name)), q)
    IN  SelectSeq(customers, Test)

\* the page body is rendered (neither the loading nor the error branch)
PageRendered ==
    /\ ~(isLoadingParts \/ isLoadingCustomers)
    /\ ~(partsError \/ customersError)

\* the component body runs again after every state change
Render ==
    /\ subtotal' = subtotalOf(invoiceItems')
    /\ taxAmount' = taxAmountOf(subtotal', tax')
    /\ totalDiscount' = totalDiscountOf(invoiceItems')
    /\ total' = totalOf(subtotal', taxAmount', totalDiscount')

----------------------------------------------------------------------------
(* State after the first render of each page *)

\* no onCustomerSubmit is running
NotSubmitting == [step |-> "idle", newCustomer |-> EmptyObject]

\* InventoryPage after its first render: the hooks of lines 76-89, the
\* filtered list of that render, whether a fetch of ["parts"] is in flight,
\* which add or update is (pending, target: the _id of the update) and which
\* deletes are; opened records the part of the dialog opened last (none for
\* the add dialog)
InventoryPageMounted ==
    [parts         |-> << >>,
     isLoading     |-> TRUE,
     error         |-> FALSE,
     isFetching    |-> TRUE,
     isDialogOpen  |-> FALSE,
     isEditMode    |-> FALSE,
     selectedPart  |-> Null,
     searchTerm    |-> "",
     filteredParts |-> << >>,
     pending       |-> "none",
     target        |-> "",
     deletes       |-> << >>,
     opened        |-> Null]

\* CustomerPage after its first render: the hooks of lines 103-126, the
\* filtered list of that render, whether a fetch of ["customers"] is in
\* flight, which mutation is and for which customer id, and the customers
\* collection behind the API with the ids deleted from it
CustomerPageMounted ==
    [server             |-> Directory,
     deleted            |-> {},
     customers          |-> << >>,
     isLoading          |-> TRUE,
     isError            |-> FALSE,
     isFetching         |-> TRUE,
     searchQuery        |-> "",
     filteredCustomers  |-> << >>,
     isAddDialogOpen    |-> FALSE,
     isEditDialogOpen   |-> FALSE,
     isDeleteDialogOpen |-> FALSE,
     selectedCustomer   |-> Null,
     pending            |-> "none",
     target             |-> ""]

\* a fresh browser profile: nothing stored
EmptyStorage == << >>

\* no services/api function has been invoked yet
NoApiCall ==
    [fn |-> "", requests |-> << >>, responses |-> << >>, outcome |-> "none",
     message |-> "", value |-> Null]

\* the routes that show a page inside MainLayout
ProtectedPaths == {"/home", "/inventory", "/customers", "/invoices"}

\* the element of a route: the elements of the protected routes are built
\* when the router is created, from isAuthenticated() at that moment
ElementAt(authenticated, path) ==
    IF path = "/" THEN "LoginPage"
    ELSE IF path \in ProtectedPaths
         THEN IF authenticated THEN "MainLayout" ELSE "Navigate"
         ELSE "NotFound"

\* where a navigation to path ends: <Navigate to="/" /> sends it on to "/"
Navigate(r, path) ==
    [r EXCEPT !.requested = path,
              !.location = IF ElementAt(r.authenticated, path) = "Navigate"
                           THEN "/" ELSE path]

\* createBrowserRouter(...) evaluated with the given storage, the browser
\* being at path
RouterCreated(storage, path) ==
    Navigate([authenticated |-> "authToken" \in DOMAIN storage,
              requested |-> path, location |-> path], path)

\* no date: the null of startDate and endDate
NoDate == 0

\* const mockInvoices: the three invoices built into InvoicePage; createdAt
\* and the dates of the calendar are points on one time line
MockInvoices ==
    << [_id |-> "1", invoiceNumber |-> "INV-2023-001",
        customer |-> [name |-> "sujeeth"], createdAt |-> 3],
       [_id |-> "2", invoiceNumber |-> "INV-2023-002",
        customer |-> [name |-> "sujeeth"], createdAt |-> 4],
       [_id |-> "3", invoiceNumber |-> "INV-2023-003",
        customer |-> [name |-> "yella"], createdAt |-> 1] >>

\* InvoicePage after mounting: the query is loading and data defaults to
\* mockInvoices
InvoicePageMounted ==
    [invoices         |-> MockInvoices,
     isLoading        |-> TRUE,
     isError          |-> FALSE,
     searchQuery      |-> "",
     startDate        |-> NoDate,
     endDate          |-> NoDate,
     selected         |-> NoDate,
     filteredInvoices |-> MockInvoices,
     rows             |-> << >>]

\* LoginPage after mounting
LoginPageMounted ==
    [activeTab           |-> "login",
     showOtpVerification |-> FALSE,
     registrationData    |-> Null,
     username            |-> "",
     inFlight            |-> << >>]

Init ==
    /\ parts = << >>
    /\ isLoadingParts = TRUE
    /\ partsError = FALSE
    /\ customers = << >>
    /\ isLoadingCustomers = TRUE
    /\ customersError = FALSE
    /\ selectedCustomer = JSObject(EmptyObject)
    /\ invoiceItems = << >>
    /\ selectedPart = ""
    /\ quantity = N(1)
    /\ discount = 0
    /\ tax = N(8)
    /\ subtotal = 0
    /\ taxAmount = 0
    /\ totalDiscount = 0
    /\ total = 0
    /\ currentBillData = NoBill
    /\ isBillPreviewOpen = FALSE
    /\ createInvoiceCall = NoCall
    /\ notes = ""
    /\ invoiceNumber = FirstInvoiceNumber
    /\ customerSearch = ""
    /\ isCustomerDialogOpen = FALSE
    /\ customerSubmit = NotSubmitting
    /\ inventoryPage = InventoryPageMounted
    /\ customerPage = CustomerPageMounted
    /\ localStorage = EmptyStorage
    /\ apiCall = NoApiCall
    /\ router = RouterCreated(EmptyStorage, "/")
    /\ loginPage = LoginPageMounted
    /\ invoicePage = InvoicePageMounted
    /\ op = ""
    /\ toast = ""

partsQuery == <<parts, isLoadingParts, partsError>>

customersQuery == <<customers, isLoadingCustomers, customersError>>

lineForm == <<selectedPart, quantity, discount>>

bill == <<currentBillData, isBillPreviewOpen>>

invoiceForm == <<notes, invoiceNumber>>

customerDialog == <<isCustomerDialogOpen, customerSubmit>>

\* the browser session and the services/api layer
session == <<localStorage, apiCall, router, loginPage, invoicePage>>

otherPages == <<inventoryPage, customerPage, session>>

----------------------------------------------------------------------------
(* The two queries: a (re)fetch settles *)

\* Faulty variant of PartsLoaded: the lines follow the catalog, each line of a
\* part still listed takes that part's current name, number and price
PartsLoadedRepricing(c) ==
    /\ parts' = c
    /\ isLoadingParts' = FALSE
    /\ partsError' = FALSE
    /\ invoiceItems' =
          [i \in 1..Len(invoiceItems) |->
              LET line == invoiceItems[i]
                  k    == FindIndexById(c, line.partId)
              IN  IF k = 0 THEN line
                  ELSE NewItem(c[k], line.quantity, line.discount)]
    /\ op' = ""
    /\ toast' = ""
    /\ UNCHANGED <<customersQuery, selectedCustomer, lineForm, tax, bill,
                   createInvoiceCall>>
    /\ UNCHANGED <<invoiceForm, customerSearch, customerDialog, otherPages>>
    /\ Render

\* queryFn fetchParts resolved with the catalog c
PartsLoaded(c) ==
    /\ parts' = c
    /\ isLoadingParts' = FALSE
    /\ partsError' = FALSE
    /\ op' = ""
    /\ toast' = ""
    /\ UNCHANGED <<customersQuery, selectedCustomer, invoiceItems, lineForm, tax,
                   bill, createInvoiceCall>>
    /\ UNCHANGED <<invoiceForm, customerSearch, customerDialog, otherPages>>
    /\ Render

\* queryFn fetchParts threw: the data of the last successful fetch is kept
PartsLoadFailed ==
    /\ isLoadingParts' = FALSE
    /\ partsError' = TRUE
    /\ op' = ""
    /\ toast' = ""
    /\ UNCHANGED <<parts, customersQuery, selectedCustomer, invoiceItems, lineForm,
                   tax, bill, createInvoiceCall>>
    /\ UNCHANGED <<invoiceForm, customerSearch, customerDialog, otherPages>>
    /\ Render

\* queryFn fetchCustomers resolved with the list l
CustomersLoaded(l) ==
    /\ customers' = l
    /\ isLoadingCustomers' = FALSE
    /\ customersError' = FALSE
    /\ op' = ""
    /\ toast' = ""
    /\ UNCHANGED <<partsQuery, selectedCustomer, invoiceItems, lineForm, tax,
                   bill, createInvoiceCall>>
    /\ UNCHANGED <<invoiceForm, customerSearch, customerDialog, otherPages>>
    /\ Render

\* queryFn fetchCustomers threw
CustomersLoadFailed ==
    /\ isLoadingCustomers' = FALSE
    /\ customersError' = TRUE
    /\ op' = ""
    /\ toast' = ""
    /\ UNCHANGED <<customers, partsQuery, selectedCustomer, invoiceItems, lineForm,
                   tax, bill, createInvoiceCall>>
    /\ UNCHANGED <<invoiceForm, customerSearch, customerDialog, otherPages>>
    /\ Render

----------------------------------------------------------------------------
(* Form inputs *)

\* click on a row of the customer picker: setSelectedCustomer(customer).
\* The row is listed for a non-empty search text contained in the name.
pickCustomer(i) ==
    /\ PageRendered
    /\ i \in 1..Len(customers)
    /\ customers[i].name # ""
    /\ selectedCustomer' = JSObject(customers[i])
    /\ customerSearch' = ""
    /\ op' = ""
    /\ toast' = ""
    /\ UNCHANGED <<partsQuery, customersQuery, invoiceItems, lineForm, tax, bill,
                   createInvoiceCall>>
    /\ UNCHANGED <<invoiceForm, customerDialog, otherPages>>
    /\ Render

\* click on a row of the part picker: setSelectedPart(part._id)
pickPart(i) ==
    /\ PageRendered
    /\ i \in 1..Len(parts)
    /\ selectedPart' = parts[i]._id
    /\ op' = ""
    /\ toast' = ""
    /\ UNCHANGED <<partsQuery, customersQuery, selectedCustomer, invoiceItems,
                   quantity, discount, tax, bill, createInvoiceCall>>
    /\ UNCHANGED <<invoiceForm, customerSearch, customerDialog, otherPages>>
    /\ Render

\* onChange of the quantity input: setQuantity(Number(e.target.value))
setQuantity(q) ==
    /\ PageRendered
    /\ quantity' = q
    /\ op' = ""
    /\ toast' = ""
    /\ UNCHANGED <<partsQuery, customersQuery, selectedCustomer, invoiceItems,
                   selectedPart, discount, tax, bill, createInvoiceCall>>
    /\ UNCHANGED <<invoiceForm, customerSearch, customerDialog, otherPages>>
    /\ Render

\* onChange of the discount input: setDiscount(Number(e.target.value))
setDiscount(d) ==
    /\ PageRendered
    /\ discount' = d
    /\ op' = ""
    /\ toast' = ""
    /\ UNCHANGED <<partsQuery, customersQuery, selectedCustomer, invoiceItems,
                   selectedPart, quantity, tax, bill, createInvoiceCall>>
    /\ UNCHANGED <<invoiceForm, customerSearch, customerDialog, otherPages>>
    /\ Render

\* onChange of the tax rate input: setTax(Number(e.target.value))
setTax(t) ==
    /\ PageRendered
    /\ tax' = t
    /\ op' = ""
    /\ toast' = ""
    /\ UNCHANGED <<partsQuery, customersQuery, selectedCustomer, invoiceItems,
                   lineForm, bill, createInvoiceCall>>
    /\ UNCHANGED <<invoiceForm, customerSearch, customerDialog, otherPages>>
    /\ Render

----------------------------------------------------------------------------
(* Handlers of the page *)

\* Add item to invoice
addItem ==
    /\ PageRendered
    /\ Len(invoiceItems) < MaxItems
    /\ op' = "addItem"
    /\ IF selectedPart = "" \/ quantity <= 0
       THEN /\ toast' = ErrAddItem
            /\ UNCHANGED <<invoiceItems, lineForm>>
       ELSE LET k == FindIndexById(parts, selectedPart) IN
            IF k = 0
            THEN \* if (!part) return;
                 /\ toast' = ""
                 /\ UNCHANGED <<invoiceItems, lineForm>>
            ELSE /\ invoiceItems' =
                        Append(invoiceItems, NewItem(parts[k], quantity, discount))
                 /\ selectedPart' = ""
                 /\ quantity' = N(1)
                 /\ discount' = 0
                 /\ toast' = ""
    /\ UNCHANGED <<partsQuery, customersQuery, selectedCustomer, tax, bill,
                   createInvoiceCall>>
    /\ UNCHANGED <<invoiceForm, customerSearch, customerDialog, otherPages>>
    /\ Render

\* Remove item from invoice: the trash button of row index
removeItem(index) ==
    /\ PageRendered
    /\ invoiceItems' = Splice1(invoiceItems, index)
    /\ op' = "removeItem"
    /\ toast' = ""
    /\ UNCHANGED <<partsQuery, customersQuery, selectedCustomer, lineForm, tax,
                   bill, createInvoiceCall>>
    /\ UNCHANGED <<invoiceForm, customerSearch, customerDialog, otherPages>>
    /\ Render

\* the body handed to createInvoice
InvoiceData(customer) ==
    [customer |-> customer,
     items    |-> invoiceItems,
     subtotal |-> subtotal,
     tax      |-> taxAmount,
     discount |-> totalDiscount,
     total    |-> total]

\* Create invoice.  The answer of POST /invoices is taken in the same step as
\* the call.
handleCreateInvoice ==
    /\ PageRendered
    /\ op' = "handleCreateInvoice"
    /\ IF ~Truthy(selectedCustomer)
       THEN /\ toast' = ErrNoCustomer
            /\ UNCHANGED <<createInvoiceCall, selectedCustomer, invoiceItems,
                           invoiceForm>>
       ELSE IF Len(invoiceItems) = 0
       THEN /\ toast' = ErrNoItems
            /\ UNCHANGED <<createInvoiceCall, selectedCustomer, invoiceItems,
                           invoiceForm>>
       ELSE LET k == FindCustomerIndex(customers, selectedCustomer) IN
            IF k = 0
            THEN \* if (!customer) return;
                 /\ toast' = ""
                 /\ UNCHANGED <<createInvoiceCall, selectedCustomer,
                                invoiceItems, invoiceForm>>
            ELSE /\ createInvoiceCall' = InvoiceData(customers[k])
                 /\ \E ok \in BOOLEAN :
                       IF ok
                       THEN \* Reset form after successful creation
                            /\ toast' = OkCreateInvoice
                            /\ selectedCustomer' = JSString("")
                            /\ invoiceItems' = << >>
                            /\ notes' = ""
                            /\ invoiceNumber' \in InvoiceNumbers
                       ELSE /\ toast' = ErrCreateInvoice
                            /\ UNCHANGED <<selectedCustomer, invoiceItems,
                                           invoiceForm>>
    /\ UNCHANGED <<partsQuery, customersQuery, lineForm, tax, bill>>
    /\ UNCHANGED <<customerSearch, customerDialog, otherPages>>
    /\ Render

\* Faulty variant of handleGenerateBill: the line list is not checked
handleGenerateBillAnyItems ==
    /\ PageRendered
    /\ op' = "handleGenerateBill"
    /\ IF ~Truthy(selectedCustomer)
       THEN /\ toast' = ErrGenerateBill
            /\ UNCHANGED bill
       ELSE /\ currentBillData' = [customer |-> selectedCustomer,
                                   items    |-> invoiceItems,
                                   discount |-> totalDiscount,
                                   total    |-> total]
            /\ isBillPreviewOpen' = TRUE
            /\ toast' = ""
    /\ UNCHANGED <<partsQuery, customersQuery, selectedCustomer, invoiceItems,
                   lineForm, tax, createInvoiceCall>>
    /\ UNCHANGED <<invoiceForm, customerSearch, customerDialog, otherPages>>
    /\ Render

\* Faulty variant of handleGenerateBill: a rejected bill clears the notes
handleGenerateBillClearingNotes ==
    /\ PageRendered
    /\ op' = "handleGenerateBill"
    /\ IF ~Truthy(selectedCustomer) \/ Len(invoiceItems) = 0
       THEN /\ toast' = ErrGenerateBill
            /\ notes' = ""
            /\ UNCHANGED bill
       ELSE /\ currentBillData' = [customer |-> selectedCustomer,
                                   items    |-> invoiceItems,
                                   discount |-> totalDiscount,
                                   total    |-> total]
            /\ isBillPreviewOpen' = TRUE
            /\ toast' = ""
            /\ UNCHANGED notes
    /\ UNCHANGED <<partsQuery, customersQuery, selectedCustomer, invoiceItems,
                   lineForm, tax, createInvoiceCall>>
    /\ UNCHANGED <<invoiceNumber, customerSearch, customerDialog, otherPages>>
    /\ Render

\* Generate Invoice button
handleGenerateBill ==
    /\ PageRendered
    /\ op' = "handleGenerateBill"
    /\ IF ~Truthy(selectedCustomer) \/ Len(invoiceItems) = 0
       THEN /\ toast' = ErrGenerateBill
            /\ UNCHANGED bill
       ELSE /\ currentBillData' = [customer |-> selectedCustomer,
                                   items    |-> invoiceItems,
                                   discount |-> totalDiscount,
                                   total    |-> total]
            /\ isBillPreviewOpen' = TRUE
            /\ toast' = ""
    /\ UNCHANGED <<partsQuery, customersQuery, selectedCustomer, invoiceItems,
                   lineForm, tax, createInvoiceCall>>
    /\ UNCHANGED <<invoiceForm, customerSearch, customerDialog, otherPages>>
    /\ Render

\* BillPreview onClose
closeBillPreview ==
    /\ PageRendered
    /\ currentBillData # NoBill
    /\ isBillPreviewOpen' = FALSE
    /\ op' = "closeBillPreview"
    /\ toast' = ""
    /\ UNCHANGED <<partsQuery, customersQuery, selectedCustomer, invoiceItems,
                   lineForm, tax, currentBillData, createInvoiceCall>>
    /\ UNCHANGED <<invoiceForm, customerSearch, customerDialog, otherPages>>
    /\ Render

\* onChange of the notes input: setNotes(e.target.value)
setNotes(n) ==
    /\ PageRendered
    /\ notes' = n
    /\ op' = ""
    /\ toast' = ""
    /\ UNCHANGED <<partsQuery, customersQuery, selectedCustomer, invoiceItems,
                   lineForm, tax, bill, createInvoiceCall>>
    /\ UNCHANGED <<invoiceNumber, customerSearch, customerDialog, otherPages>>
    /\ Render

\* onChange of the invoice number input: setInvoiceNumber(e.target.value)
setInvoiceNumber(v) ==
    /\ PageRendered
    /\ invoiceNumber' = v
    /\ op' = ""
    /\ toast' = ""
    /\ UNCHANGED <<partsQuery, customersQuery, selectedCustomer, invoiceItems,
                   lineForm, tax, bill, createInvoiceCall>>
    /\ UNCHANGED <<notes, customerSearch, customerDialog, otherPages>>
    /\ Render

\* onChange of the customer search input: setCustomerSearch(e.target.value)
setCustomerSearch(q) ==
    /\ PageRendered
    /\ customerSearch' = q
    /\ op' = ""
    /\ toast' = ""
    /\ UNCHANGED <<partsQuery, customersQuery, selectedCustomer, invoiceItems,
                   lineForm, tax, bill, createInvoiceCall>>
    /\ UNCHANGED <<invoiceForm, customerDialog, otherPages>>
    /\ Render

\* onOpenChange of the New Customer dialog: the trigger opens it, Escape or
\* a click outside closes it
setIsCustomerDialogOpen(open) ==
    /\ PageRendered
    /\ isCustomerDialogOpen' = open
    /\ op' = ""
    /\ toast' = ""
    /\ UNCHANGED <<partsQuery, customersQuery, selectedCustomer, invoiceItems,
                   lineForm, tax, bill, createInvoiceCall>>
    /\ UNCHANGED <<invoiceForm, customerSearch, customerSubmit, otherPages>>
    /\ Render

\* Handle customer form submission: the validated form is handed to
\* api.addCustomerWithToast and the handler waits for the answer.  One
\* submission runs at a time.
onCustomerSubmit ==
    /\ PageRendered
    /\ isCustomerDialogOpen
    /\ customerSubmit.step = "idle"
    /\ customerSubmit' = [customerSubmit EXCEPT !.step = "addCustomer"]
    /\ op' = ""
    /\ toast' = ""
    /\ UNCHANGED <<partsQuery, customersQuery, selectedCustomer, invoiceItems,
                   lineForm, tax, bill, createInvoiceCall>>
    /\ UNCHANGED <<invoiceForm, customerSearch, isCustomerDialogOpen, otherPages>>
    /\ Render

\* Faulty variant of addCustomerFailed: the dialog is closed in any case
addCustomerFailedClosing ==
    /\ customerSubmit.step = "addCustomer"
    /\ customerSubmit' = NotSubmitting
    /\ isCustomerDialogOpen' = FALSE
    /\ op' = "onCustomerSubmit"
    /\ toast' = ErrAddCustomer
    /\ UNCHANGED <<partsQuery, customersQuery, selectedCustomer, invoiceItems,
                   lineForm, tax, bill, createInvoiceCall>>
    /\ UNCHANGED <<invoiceForm, customerSearch, otherPages>>
    /\ Render

\* addCustomer threw: withToastHandling shows the error toast and rethrows,
\* the catch of onCustomerSubmit logs it
addCustomerFailed ==
    /\ customerSubmit.step = "addCustomer"
    /\ customerSubmit' = NotSubmitting
    /\ op' = "onCustomerSubmit"
    /\ toast' = ErrAddCustomer
    /\ UNCHANGED <<partsQuery, customersQuery, selectedCustomer, invoiceItems,
                   lineForm, tax, bill, createInvoiceCall>>
    /\ UNCHANGED <<invoiceForm, customerSearch, isCustomerDialogOpen, otherPages>>
    /\ Render

\* addCustomer resolved with c: the success toast is shown and the handler
\* waits for refetchCustomers()
addCustomerSucceeded(c) ==
    /\ customerSubmit.step = "addCustomer"
    /\ customerSubmit' = [step |-> "refetchCustomers", newCustomer |-> c]
    /\ op' = "onCustomerSubmit"
    /\ toast' = OkAddCustomer
    /\ UNCHANGED <<partsQuery, customersQuery, selectedCustomer, invoiceItems,
                   lineForm, tax, bill, createInvoiceCall>>
    /\ UNCHANGED <<invoiceForm, customerSearch, isCustomerDialogOpen, otherPages>>
    /\ Render

\* the rest of onCustomerSubmit once refetchCustomers() has settled
afterRefetchCustomers ==
    /\ selectedCustomer' =
          IF customerSubmit.newCustomer._id # Undefined
          THEN JSObject(customerSubmit.newCustomer)
          ELSE selectedCustomer
    /\ isCustomerDialogOpen' = FALSE
    /\ customerSubmit' = NotSubmitting
    /\ op' = "onCustomerSubmit"
    /\ toast' = ""

\* refetchCustomers() resolved with the list l
customersRefetched(l) ==
    /\ customerSubmit.step = "refetchCustomers"
    /\ customers' = l
    /\ isLoadingCustomers' = FALSE
    /\ customersError' = FALSE
    /\ afterRefetchCustomers
    /\ UNCHANGED <<partsQuery, invoiceItems, lineForm, tax, bill,
                   createInvoiceCall>>
    /\ UNCHANGED <<invoiceForm, customerSearch, otherPages>>
    /\ Render

\* the fetch of refetchCustomers() failed: refetch() resolves all the same
customersRefetchFailed ==
    /\ customerSubmit.step = "refetchCustomers"
    /\ isLoadingCustomers' = FALSE
    /\ customersError' = TRUE
    /\ afterRefetchCustomers
    /\ UNCHANGED <<customers, partsQuery, invoiceItems, lineForm, tax, bill,
                   createInvoiceCall>>
    /\ UNCHANGED <<invoiceForm, customerSearch, otherPages>>
    /\ Render

----------------------------------------------------------------------------

\* Every event of the page
Next ==
    \/ \E c \in Catalogs : PartsLoaded(c)
    \/ PartsLoadFailed
    \/ \E l \in CustomerLists : CustomersLoaded(l)
    \/ CustomersLoadFailed
    \/ \E i \in 1..Len(customers) : pickCustomer(i)
    \/ \E i \in 1..Len(parts) : pickPart(i)
    \/ \E q \in Quantities : setQuantity(q)
    \/ \E d \in Discounts : setDiscount(d)
    \/ \E t \in TaxRates : setTax(t)
    \/ addItem
    \/ \E index \in 0..(Len(invoiceItems) - 1) : removeItem(index)
    \/ handleGenerateBill
    \/ handleCreateInvoice
    \/ closeBillPreview
    \/ \E n \in Notes : setNotes(n)
    \/ \E v \in InvoiceNumbers : setInvoiceNumber(v)
    \/ \E q \in CustomerSearches : setCustomerSearch(q)
    \/ \E open \in BOOLEAN : setIsCustomerDialogOpen(open)
    \/ onCustomerSubmit
    \/ addCustomerFailed
    \/ \E c \in NewCustomers : addCustomerSucceeded(c)
    \/ \E l \in CustomerListsAfterAdd : customersRefetched(l)
    \/ customersRefetchFailed

Spec == Init /\ [][Next]_vars

\* The line editor: the catalog and the customers load and reload, the user
\* fills the line form, adds and removes lines and changes the tax rate
NextLines ==
    \/ \E c \in Catalogs : PartsLoaded(c)
    \/ \E l \in CustomerLists : CustomersLoaded(l)
    \/ \E i \in 1..Len(parts) : pickPart(i)
    \/ \E q \in Quantities : setQuantity(q)
    \/ \E d \in Discounts : setDiscount(d)
    \/ \E t \in TaxRates : setTax(t)
    \/ addItem
    \/ \E index \in 0..(Len(invoiceItems) - 1) : removeItem(index)

SpecLines == Init /\ [][NextLines]_vars

\* Assembling the invoice: both queries load, reload and fail, the user picks
\* a customer, adds and removes lines of quantity 1 without discount, and
\* generates, closes or submits the bill
NextBill ==
    \/ \E c \in Catalogs : PartsLoaded(c)
    \/ PartsLoadFailed
    \/ \E l \in CustomerLists : CustomersLoaded(l)
    \/ CustomersLoadFailed
    \/ \E i \in 1..Len(customers) : pickCustomer(i)
    \/ \E i \in 1..Len(parts) : pickPart(i)
    \/ addItem
    \/ \E index \in 0..(Len(invoiceItems) - 1) : removeItem(index)
    \/ handleGenerateBill
    \/ handleCreateInvoice
    \/ closeBillPreview

SpecBill == Init /\ [][NextBill]_vars

\* The invoice form: both queries load, the user picks a customer and a
\* part, adds lines of quantity 1, types notes and an invoice number and
\* generates or submits the bill
NextForm ==
    \/ \E c \in Catalogs : PartsLoaded(c)
    \/ \E l \in CustomerLists : CustomersLoaded(l)
    \/ \E i \in 1..Len(customers) : pickCustomer(i)
    \/ \E i \in 1..Len(parts) : pickPart(i)
    \/ \E n \in Notes : setNotes(n)
    \/ \E v \in InvoiceNumbers : setInvoiceNumber(v)
    \/ addItem
    \/ handleGenerateBill
    \/ handleCreateInvoice

SpecForm == Init /\ [][NextForm]_vars

\* The New Customer dialog: both queries load, the user picks a customer,
\* adds lines of quantity 1, types notes, opens the dialog, adds a customer
\* and submits the bill
NextDialog ==
    \/ \E c \in Catalogs : PartsLoaded(c)
    \/ \E l \in CustomerLists : CustomersLoaded(l)
    \/ \E i \in 1..Len(customers) : pickCustomer(i)
    \/ \E i \in 1..Len(parts) : pickPart(i)
    \/ \E n \in Notes : setNotes(n)
    \/ addItem
    \/ handleCreateInvoice
    \/ \E open \in BOOLEAN : setIsCustomerDialogOpen(open)
    \/ onCustomerSubmit
    \/ addCustomerFailed
    \/ \E c \in NewCustomers : addCustomerSucceeded(c)
    \/ \E l \in CustomerListsAfterAdd : customersRefetched(l)
    \/ customersRefetchFailed

SpecDialog == Init /\ [][NextDialog]_vars

\* The customer picker: both queries load, the user types into the search
\* field and clicks a row
NextPicker ==
    \/ \E c \in Catalogs : PartsLoaded(c)
    \/ \E l \in CustomerLists : CustomersLoaded(l)
    \/ \E q \in CustomerSearches : setCustomerSearch(q)
    \/ \E i \in 1..Len(customers) : pickCustomer(i)

SpecPicker == Init /\ [][NextPicker]_vars

\* lines addItem builds from valid input: part p1 at either of its prices,
\* quantity 1, discount 0 or 5
SampleLines ==
    { NewItem(Part("p1", "Brake Pad", "BP-1", N(4)), N(1), 0),
      NewItem(Part("p1", "Brake Pad", "BP-1", N(4)), N(1), N(5)),
      NewItem(Part("p1", "Brake Pad HD", "BP-1H", N(6)), N(1), 0),
      NewItem(Part("p1", "Brake Pad HD", "BP-1H", N(6)), N(1), N(5)) }

ListsUpTo(S, n) == UNION { [1..k -> S] : k \in 0..n }

\* the rendered page with both queries loaded and any list of up to MaxLines
\* lines that addItem has built
InitLineList ==
    /\ parts \in Catalogs
    /\ isLoadingParts = FALSE
    /\ partsError = FALSE
    /\ customers \in CustomerLists
    /\ isLoadingCustomers = FALSE
    /\ customersError = FALSE
    /\ selectedCustomer = JSObject(EmptyObject)
    /\ invoiceItems \in ListsUpTo(SampleLines, MaxLines)
    /\ selectedPart = ""
    /\ quantity = N(1)
    /\ discount = 0
    /\ tax = N(8)
    /\ subtotal = subtotalOf(invoiceItems)
    /\ taxAmount = taxAmountOf(subtotal, tax)
    /\ totalDiscount = totalDiscountOf(invoiceItems)
    /\ total = totalOf(subtotal, taxAmount, totalDiscount)
    /\ currentBillData = NoBill
    /\ isBillPreviewOpen = FALSE
    /\ createInvoiceCall = NoCall
    /\ notes = ""
    /\ invoiceNumber = FirstInvoiceNumber
    /\ customerSearch = ""
    /\ isCustomerDialogOpen = FALSE
    /\ customerSubmit = NotSubmitting
    /\ inventoryPage = InventoryPageMounted
    /\ customerPage = CustomerPageMounted
    /\ localStorage = EmptyStorage
    /\ apiCall = NoApiCall
    /\ router = RouterCreated(EmptyStorage, "/")
    /\ loginPage = LoginPageMounted
    /\ invoicePage = InvoicePageMounted
    /\ op = ""
    /\ toast = ""

\* The list operations: removeItem is called with any index, in range or not,
\* addItem appends, and the bill is generated from the list
NextLineList ==
    \/ \E index \in (-MaxLines)..MaxLines : removeItem(index)
    \/ \E i \in 1..Len(parts) : pickPart(i)
    \/ addItem
    \/ handleGenerateBill

SpecLineList == InitLineList /\ [][NextLineList]_vars

----------------------------------------------------------------------------
(* InventoryPage *)

\* everything BillingPage holds
billingPage ==
    <<partsQuery, customersQuery, selectedCustomer, invoiceItems, lineForm, tax,
      subtotal, taxAmount, totalDiscount, total, bill, createInvoiceCall,
      invoiceForm, customerSearch, customerDialog>>

\* the predicate of filteredParts
PartMatches(part, searchTerm) ==
    LET q == ToLowerCase(Chars(searchTerm)) IN
    \/ Includes(ToLowerCase(Chars(part.name)), q)
    \/ Includes(ToLowerCase(Chars(part.partNumber)), q)
    \/ Includes(ToLowerCase(Chars(part.category)), q)
    \/ Includes(ToLowerCase(Chars(part.manufacturer)), q)

\* Faulty variant of filteredPartsOf: only name and part number are searched
filteredPartsByName(list, searchTerm) ==
    LET q == ToLowerCase(Chars(searchTerm))
        Test(part) == \/ Includes(ToLowerCase(Chars(part.name)), q)
                      \/ Includes(ToLowerCase(Chars(part.partNumber)), q)
    IN  SelectSeq(list, Test)

\* Filter parts based on search term: Array.prototype.filter keeps the order
filteredPartsOf(list, searchTerm) ==
    LET Test(part) == PartMatches(part, searchTerm)
    IN  SelectSeq(list, Test)

\* the component body runs again: the filtered list of the new render
RenderInventory(page) ==
    [page EXCEPT !.filteredParts = filteredPartsOf(page.parts, page.searchTerm)]

\* the page body is rendered (neither the loading nor the error branch)
InventoryRendered == ~inventoryPage.isLoading /\ ~inventoryPage.error

OkAddPart == "Part added successfully"

OkUpdatePart == "Part updated successfully"

ErrAddPart == "Failed to add part"

ErrUpdatePart == "Failed to update part"

ErrDeleteData == "Failed to delete data"

\* queryFn fetchParts resolved with the catalog c
inventoryPartsLoaded(c) ==
    /\ inventoryPage.isFetching
    /\ inventoryPage' =
          RenderInventory([inventoryPage EXCEPT !.parts = c,
                                                !.isLoading = FALSE,
                                                !.error = FALSE,
                                                !.isFetching = FALSE])
    /\ op' = ""
    /\ toast' = ""
    /\ UNCHANGED <<billingPage, customerPage, session>>

\* queryFn fetchParts threw: the data of the last successful fetch is kept
inventoryPartsLoadFailed ==
    /\ inventoryPage.isFetching
    /\ inventoryPage' =
          RenderInventory([inventoryPage EXCEPT !.isLoading = FALSE,
                                                !.error = TRUE,
                                                !.isFetching = FALSE])
    /\ op' = ""
    /\ toast' = ""
    /\ UNCHANGED <<billingPage, customerPage, session>>

\* the window gets the focus again: the query refetches
inventoryRefetchOnWindowFocus ==
    /\ ~inventoryPage.isFetching
    /\ inventoryPage' = RenderInventory([inventoryPage EXCEPT !.isFetching = TRUE])
    /\ op' = ""
    /\ toast' = ""
    /\ UNCHANGED <<billingPage, customerPage, session>>

\* onChange of the search input: setSearchTerm(e.target.value)
setSearchTerm(q) ==
    /\ InventoryRendered
    /\ inventoryPage' = RenderInventory([inventoryPage EXCEPT !.searchTerm = q])
    /\ op' = ""
    /\ toast' = ""
    /\ UNCHANGED <<billingPage, customerPage, session>>

\* Open dialog for adding new part
openAddDialog ==
    /\ InventoryRendered
    /\ inventoryPage' =
          RenderInventory([inventoryPage EXCEPT !.isEditMode = FALSE,
                                                !.selectedPart = Null,
                                                !.isDialogOpen = TRUE,
                                                !.opened = Null])
    /\ op' = "openAddDialog"
    /\ toast' = ""
    /\ UNCHANGED <<billingPage, customerPage, session>>

\* Open dialog for editing part: the edit button of row i of the table
openEditDialog(i) ==
    /\ InventoryRendered
    /\ i \in 1..Len(inventoryPage.filteredParts)
    /\ inventoryPage' =
          RenderInventory([inventoryPage EXCEPT
                              !.isEditMode = TRUE,
                              !.selectedPart = inventoryPage.filteredParts[i],
                              !.isDialogOpen = TRUE,
                              !.opened = inventoryPage.filteredParts[i]])
    /\ op' = "openEditDialog"
    /\ toast' = ""
    /\ UNCHANGED <<billingPage, customerPage, session>>

\* what closeDialog leaves of the page
DialogClosed(page) ==
    [page EXCEPT !.isDialogOpen = FALSE, !.isEditMode = FALSE,
                 !.selectedPart = Null]

\* Close dialog: the Cancel button
closeDialog ==
    /\ InventoryRendered
    /\ inventoryPage.isDialogOpen
    /\ inventoryPage' = RenderInventory(DialogClosed(inventoryPage))
    /\ op' = "closeDialog"
    /\ toast' = ""
    /\ UNCHANGED <<billingPage, customerPage, session>>

\* the dialog is dismissed (Escape, the overlay, its close button):
\* onOpenChange={setIsDialogOpen} with false
dismissDialog ==
    /\ InventoryRendered
    /\ inventoryPage.isDialogOpen
    /\ inventoryPage' = RenderInventory([inventoryPage EXCEPT !.isDialogOpen = FALSE])
    /\ op' = "onOpenChange"
    /\ toast' = ""
    /\ UNCHANGED <<billingPage, customerPage, session>>

\* Submit form handler: the validated form starts the update or the add
\* mutation; target is the _id handed to the update.  The submit button is
\* disabled while an add or an update is pending.
onSubmit ==
    /\ InventoryRendered
    /\ inventoryPage.isDialogOpen
    /\ inventoryPage.pending = "none"
    /\ inventoryPage' =
          RenderInventory(
             IF inventoryPage.isEditMode /\ inventoryPage.selectedPart # Null
             THEN [inventoryPage EXCEPT !.pending = "updatePartMutation",
                                        !.target = inventoryPage.selectedPart._id]
             ELSE [inventoryPage EXCEPT !.pending = "addPartMutation",
                                        !.target = ""])
    /\ op' = "onSubmit"
    /\ toast' = ""
    /\ UNCHANGED <<billingPage, customerPage, session>>

\* requests of one kind that may be awaiting a response at one time
MaxInFlight == 2

\* a sequence without its i-th element
Without(seq, i) == [j \in 1..(Len(seq) - 1) |-> IF j < i THEN seq[j] ELSE seq[j + 1]]

\* the Delete Part button of the edit dialog, disabled while the update is
\* pending: deletePartMutation.mutate(id); closeDialog().  deletes holds the
\* ids of the deletes under way.
handleDelete ==
    /\ InventoryRendered
    /\ inventoryPage.isDialogOpen
    /\ inventoryPage.isEditMode
    /\ inventoryPage.selectedPart # Null
    /\ inventoryPage.pending # "updatePartMutation"
    /\ Len(inventoryPage.deletes) < MaxInFlight
    /\ inventoryPage' =
          RenderInventory(DialogClosed([inventoryPage EXCEPT
              !.deletes = Append(@, inventoryPage.selectedPart._id)]))
    /\ op' = "handleDelete"
    /\ toast' = ""
    /\ UNCHANGED <<billingPage, customerPage, session>>

PartMutations == {"addPartMutation", "updatePartMutation", "deletePartMutation"}

\* the mutations the form starts
FormMutations == {"addPartMutation", "updatePartMutation"}

\* the success toast of withToastHandling: deletedataWithToast passes none
PartSuccessMessage(mutation) ==
    CASE mutation = "addPartMutation" -> OkAddPart
      [] mutation = "updatePartMutation" -> OkUpdatePart
      [] OTHER -> ""

PartErrorMessage(mutation) ==
    CASE mutation = "addPartMutation" -> ErrAddPart
      [] mutation = "updatePartMutation" -> ErrUpdatePart
      [] OTHER -> ErrDeleteData

\* Faulty variant of partMutationSucceeded: onSuccess resets the edit state
\* but leaves the dialog as it is
partMutationSucceededKeepingDialog ==
    /\ inventoryPage.pending \in FormMutations
    /\ inventoryPage' =
          RenderInventory(
             IF inventoryPage.pending = "addPartMutation"
             THEN [inventoryPage EXCEPT !.isFetching = TRUE,
                                        !.pending = "none",
                                        !.target = ""]
             ELSE [inventoryPage EXCEPT !.isFetching = TRUE,
                                        !.isEditMode = FALSE,
                                        !.selectedPart = Null,
                                        !.pending = "none",
                                        !.target = ""])
    /\ op' = inventoryPage.pending
    /\ toast' = PartSuccessMessage(inventoryPage.pending)
    /\ UNCHANGED <<billingPage, customerPage, session>>

\* the add or update under way resolved: the toast of withToastHandling, then
\* onSuccess invalidates ["parts"], which starts a fetch, and closes the dialog
partMutationSucceeded ==
    /\ inventoryPage.pending \in FormMutations
    /\ inventoryPage' =
          RenderInventory(
             IF inventoryPage.pending = "addPartMutation"
             THEN [inventoryPage EXCEPT !.isFetching = TRUE,
                                        !.isDialogOpen = FALSE,
                                        !.pending = "none",
                                        !.target = ""]
             ELSE DialogClosed([inventoryPage EXCEPT !.isFetching = TRUE,
                                                     !.pending = "none",
                                                     !.target = ""]))
    /\ op' = inventoryPage.pending
    /\ toast' = PartSuccessMessage(inventoryPage.pending)
    /\ UNCHANGED <<billingPage, customerPage, session>>

\* the add or update under way rejected: the error toast of
\* withToastHandling; the mutation has no onError
partMutationFailed ==
    /\ inventoryPage.pending \in FormMutations
    /\ inventoryPage' = RenderInventory([inventoryPage EXCEPT !.pending = "none",
                                                              !.target = ""])
    /\ op' = inventoryPage.pending
    /\ toast' = PartErrorMessage(inventoryPage.pending)
    /\ UNCHANGED <<billingPage, customerPage, session>>

\* the i-th delete under way resolved: no success toast; onSuccess
\* invalidates ["parts"], closes the dialog and resets the edit state
deletePartSucceeded(i) ==
    /\ i \in 1..Len(inventoryPage.deletes)
    /\ inventoryPage' =
          RenderInventory(DialogClosed([inventoryPage EXCEPT
              !.isFetching = TRUE,
              !.deletes = Without(@, i)]))
    /\ op' = "deletePartMutation"
    /\ toast' = PartSuccessMessage("deletePartMutation")
    /\ UNCHANGED <<billingPage, customerPage, session>>

\* the i-th delete under way rejected: the error toast
deletePartFailed(i) ==
    /\ i \in 1..Len(inventoryPage.deletes)
    /\ inventoryPage' = RenderInventory([inventoryPage EXCEPT !.deletes = Without(@, i)])
    /\ op' = "deletePartMutation"
    /\ toast' = PartErrorMessage("deletePartMutation")
    /\ UNCHANGED <<billingPage, customerPage, session>>

\* Every event of InventoryPage
NextInventory ==
    \/ \E c \in InventoryCatalogs : inventoryPartsLoaded(c)
    \/ inventoryPartsLoadFailed
    \/ inventoryRefetchOnWindowFocus
    \/ \E q \in SearchTerms : setSearchTerm(q)
    \/ openAddDialog
    \/ \E i \in 1..Len(inventoryPage.filteredParts) : openEditDialog(i)
    \/ closeDialog
    \/ dismissDialog
    \/ onSubmit
    \/ handleDelete
    \/ partMutationSucceeded
    \/ partMutationFailed
    \/ \E i \in 1..MaxInFlight : deletePartSucceeded(i)
    \/ \E i \in 1..MaxInFlight : deletePartFailed(i)

SpecInventory == Init /\ [][NextInventory]_vars

----------------------------------------------------------------------------
(* CustomerPage *)

\* the five values of Object.values(customer.address)
AddressValues(address) ==
    { address[field] : field \in {"street", "city", "state", "zipCode", "country"} }

\* the predicate of filteredCustomers: the name and the address values are
\* compared in lower case, the phone as it is
CustomerMatches(customer, searchQuery) ==
    \/ Includes(ToLowerCase(Chars(customer.name)), ToLowerCase(Chars(searchQuery)))
    \/ Includes(Chars(customer.phone), Chars(searchQuery))
    \/ \E value \in AddressValues(customer.address) :
          /\ value # ""
          /\ Includes(ToLowerCase(Chars(value)), ToLowerCase(Chars(searchQuery)))

\* Filter customers based on search query
filteredCustomersOf(list, searchQuery) ==
    LET Test(customer) == CustomerMatches(customer, searchQuery)
    IN  IF searchQuery # "" THEN SelectSeq(list, Test) ELSE list

\* the component body runs again: the filtered list of the new render
RenderCustomers(page) ==
    [page EXCEPT !.filteredCustomers =
                     filteredCustomersOf(page.customers, page.searchQuery)]

\* the table rows are rendered (neither loading nor error)
CustomerRowsRendered == ~customerPage.isLoading /\ ~customerPage.isError

\* the customer the add form creates, with the id the collaborator gives it
AddedCustomer ==
    CustomerWithAddress("c3", "Meena", "+913",
                        "12 Lake Road", "Pune", "MH", "41100", "India")

\* the name the edit form is saved with
EditedName == "Asha K"

IdsOf(list) == { list[i]._id : i \in 1..Len(list) }

\* queryFn fetchCustomers resolved with the collection as it is now
customerPageLoaded ==
    /\ customerPage.isFetching
    /\ customerPage' =
          RenderCustomers([customerPage EXCEPT
                              !.customers = customerPage.server,
                              !.isLoading = FALSE,
                              !.isError = FALSE,
                              !.isFetching = FALSE])
    /\ op' = ""
    /\ toast' = ""
    /\ UNCHANGED <<billingPage, inventoryPage, session>>

\* queryFn fetchCustomers threw
customerPageLoadFailed ==
    /\ customerPage.isFetching
    /\ customerPage' =
          RenderCustomers([customerPage EXCEPT !.isLoading = FALSE,
                                               !.isError = TRUE,
                                               !.isFetching = FALSE])
    /\ op' = ""
    /\ toast' = ""
    /\ UNCHANGED <<billingPage, inventoryPage, session>>

\* onChange of the search input: setSearchQuery(e.target.value)
setSearchQuery(q) ==
    /\ customerPage' = RenderCustomers([customerPage EXCEPT !.searchQuery = q])
    /\ op' = ""
    /\ toast' = ""
    /\ UNCHANGED <<billingPage, inventoryPage, session>>

\* the Add Customer button and onOpenChange of the add dialog
setIsAddDialogOpen(open) ==
    /\ customerPage' = RenderCustomers([customerPage EXCEPT !.isAddDialogOpen = open])
    /\ op' = ""
    /\ toast' = ""
    /\ UNCHANGED <<billingPage, inventoryPage, session>>

\* Open edit dialog and populate form: the edit button of row i
openEditCustomerDialog(i) ==
    /\ CustomerRowsRendered
    /\ i \in 1..Len(customerPage.filteredCustomers)
    /\ customerPage' =
          RenderCustomers([customerPage EXCEPT
                              !.selectedCustomer = customerPage.filteredCustomers[i],
                              !.isEditDialogOpen = TRUE])
    /\ op' = "openEditDialog"
    /\ toast' = ""
    /\ UNCHANGED <<billingPage, inventoryPage, session>>

\* Open delete confirmation dialog: the delete button of row i
openDeleteDialog(i) ==
    /\ CustomerRowsRendered
    /\ i \in 1..Len(customerPage.filteredCustomers)
    /\ customerPage' =
          RenderCustomers([customerPage EXCEPT
                              !.selectedCustomer = customerPage.filteredCustomers[i],
                              !.isDeleteDialogOpen = TRUE])
    /\ op' = "openDeleteDialog"
    /\ toast' = ""
    /\ UNCHANGED <<billingPage, inventoryPage, session>>

\* Handle adding a new customer: addCustomerMutation.mutate(values).  One
\* mutation runs at a time, and the collection has one id left to give.
handleAddCustomer ==
    /\ customerPage.isAddDialogOpen
    /\ customerPage.pending = "none"
    /\ AddedCustomer._id \notin IdsOf(customerPage.server) \cup customerPage.deleted
    /\ customerPage' =
          RenderCustomers([customerPage EXCEPT !.pending = "addCustomerMutation",
                                               !.target = ""])
    /\ op' = "handleAddCustomer"
    /\ toast' = ""
    /\ UNCHANGED <<billingPage, inventoryPage, session>>

\* Handle editing a customer: editCustomerMutation.mutate(values); the
\* mutation takes the id of the selected customer
handleEditCustomer ==
    /\ customerPage.isEditDialogOpen
    /\ customerPage.pending = "none"
    /\ customerPage.selectedCustomer # Null
    /\ customerPage' =
          RenderCustomers([customerPage EXCEPT
                              !.pending = "editCustomerMutation",
                              !.target = customerPage.selectedCustomer._id])
    /\ op' = "handleEditCustomer"
    /\ toast' = ""
    /\ UNCHANGED <<billingPage, inventoryPage, session>>

\* Handle deleting a customer: the Delete button of the confirmation dialog
handleDeleteCustomer ==
    /\ customerPage.isDeleteDialogOpen
    /\ customerPage.pending = "none"
    /\ customerPage.selectedCustomer # Null
    /\ customerPage' =
          RenderCustomers([customerPage EXCEPT
                              !.pending = "deleteCustomerMutation",
                              !.target = customerPage.selectedCustomer._id])
    /\ op' = "handleDeleteCustomer"
    /\ toast' = ""
    /\ UNCHANGED <<billingPage, inventoryPage, session>>

CustomerMutations ==
    {"addCustomerMutation", "editCustomerMutation", "deleteCustomerMutation"}

CustomerSuccessMessage(mutation) ==
    CASE mutation = "addCustomerMutation" -> OkAddCustomer
      [] mutation = "editCustomerMutation" -> "Customer updated successfully"
      [] OTHER -> "Customer deleted successfully"

CustomerErrorMessage(mutation) ==
    CASE mutation = "addCustomerMutation" -> ErrAddCustomer
      [] mutation = "editCustomerMutation" -> "Failed to update customer"
      [] OTHER -> "Failed to delete customer"

\* the collection after the mutation was applied to it
ServerAfter(server, mutation, target) ==
    LET Others(c) == c._id # target IN
    CASE mutation = "addCustomerMutation" -> Append(server, AddedCustomer)
      [] mutation = "editCustomerMutation" ->
            [i \in 1..Len(server) |->
                IF server[i]._id = target
                THEN [server[i] EXCEPT !.name = EditedName]
                ELSE server[i]]
      [] OTHER -> SelectSeq(server, Others)

\* the running mutation resolved: the toast of withToastHandling, then
\* onSuccess invalidates ["customers"], which starts a fetch, and closes the
\* dialog of that mutation
customerMutationSucceeded ==
    LET page == customerPage
        m    == page.pending
    IN  /\ m \in CustomerMutations
        /\ m = "addCustomerMutation" \/ page.target \in IdsOf(page.server)
        /\ customerPage' =
              RenderCustomers([page EXCEPT
                  !.server  = ServerAfter(page.server, m, page.target),
                  !.deleted = IF m = "deleteCustomerMutation"
                              THEN page.deleted \cup {page.target}
                              ELSE page.deleted,
                  !.isFetching = TRUE,
                  !.isAddDialogOpen =
                      IF m = "addCustomerMutation" THEN FALSE
                      ELSE page.isAddDialogOpen,
                  !.isEditDialogOpen =
                      IF m = "editCustomerMutation" THEN FALSE
                      ELSE page.isEditDialogOpen,
                  !.isDeleteDialogOpen =
                      IF m = "deleteCustomerMutation" THEN FALSE
                      ELSE page.isDeleteDialogOpen,
                  !.pending = "none"])
        /\ op' = m
        /\ toast' = CustomerSuccessMessage(m)
        /\ UNCHANGED <<billingPage, inventoryPage, session>>

\* the running mutation rejected: the error toast of withToastHandling
customerMutationFailed ==
    /\ customerPage.pending \in CustomerMutations
    /\ customerPage' = RenderCustomers([customerPage EXCEPT !.pending = "none"])
    /\ op' = customerPage.pending
    /\ toast' = CustomerErrorMessage(customerPage.pending)
    /\ UNCHANGED <<billingPage, inventoryPage, session>>

\* The customers of CustomerPage: the list loads and reloads, the user opens
\* the dialogs and adds, edits and deletes customers
NextCustomers ==
    \/ customerPageLoaded
    \/ customerPageLoadFailed
    \/ \E open \in BOOLEAN : setIsAddDialogOpen(open)
    \/ \E i \in 1..Len(customerPage.filteredCustomers) : openEditCustomerDialog(i)
    \/ \E i \in 1..Len(customerPage.filteredCustomers) : openDeleteDialog(i)
    \/ handleAddCustomer
    \/ handleEditCustomer
    \/ handleDeleteCustomer
    \/ customerMutationSucceeded
    \/ customerMutationFailed

SpecCustomers == Init /\ [][NextCustomers]_vars

----------------------------------------------------------------------------
(* Properties of the line editor and the totals *)

\* sum of a field over the first n lines
RECURSIVE SumTo(_, _, _)
SumTo(items, field, n) ==
    IF n = 0 THEN 0 ELSE SumTo(items, field, n - 1) + items[n][field]

\* sum of unitPrice * quantity over the first n lines, in units of 1/Scale^2
RECURSIVE GrossTo(_, _)
GrossTo(items, n) ==
    IF n = 0 THEN 0
    ELSE GrossTo(items, n - 1) + items[n].unitPrice * items[n].quantity

IsPositiveInteger(q) == q > 0 /\ q % Scale = 0

Resolves(id, list) == \E i \in 1..Len(list) : list[i]._id = id

\* C1: in every reachable state the four totals are derived from the current
\* line list and tax rate: subtotal is the sum of the line totals,
\* totalDiscount the sum of the line discounts, taxAmount is exactly
\* subtotal * tax / 100 (0 for a rate of 0, literal for a rate outside 0..100)
\* and total = subtotal + taxAmount - totalDiscount.
C1_TotalsDerived ==
    /\ subtotal = SumTo(invoiceItems, "total", Len(invoiceItems))
    /\ totalDiscount = SumTo(invoiceItems, "discount", Len(invoiceItems))
    /\ taxAmount * N(100) = subtotal * tax
    /\ (tax = 0 => taxAmount = 0)
    /\ total = subtotal + taxAmount - totalDiscount

\* two lines, a rate above 100 and a non-zero tax amount
C1_Witness ==
    /\ Len(invoiceItems) = 2
    /\ tax > N(100)
    /\ taxAmount # 0
    /\ totalDiscount # 0

\* C2: a line's discount reduces the grand total exactly once: total equals
\* sum(unitPrice * quantity) + taxAmount - sum(discount).  Stated for lists
\* of well-formed lines (whole quantity, discount not negative), which
\* addItem builds from valid input.
C2_DiscountSubtractedOnce ==
    (\A i \in 1..Len(invoiceItems) :
        /\ IsPositiveInteger(invoiceItems[i].quantity)
        /\ invoiceItems[i].discount >= 0)
    => total * Scale =
          GrossTo(invoiceItems, Len(invoiceItems))
          + taxAmount * Scale
          - SumTo(invoiceItems, "discount", Len(invoiceItems)) * Scale

\* C3: addItem shows the quantity error and appends no line whenever the
\* quantity is not a positive integer; with a part that resolves and
\* quantity 1 it appends exactly one line.
C3_InvalidQuantityRejected ==
    [][ op' = "addItem" =>
          /\ ~IsPositiveInteger(quantity) =>
                (toast' = ErrAddItem /\ invoiceItems' = invoiceItems)
          /\ (quantity = N(1) /\ Resolves(selectedPart, parts)) =>
                (Len(invoiceItems') = Len(invoiceItems) + 1 /\ toast' = "")
      ]_vars

\* C4: addItem emits an error notification and appends no line whenever the
\* selected part id does not resolve against the loaded parts list.
C4_InvalidSelectionReported ==
    [][ (op' = "addItem" /\ ~Resolves(selectedPart, parts)) =>
          (toast' # "" /\ invoiceItems' = invoiceItems)
      ]_vars

\* C5: no line with a negative discount is ever present in invoiceItems.
C5_NoNegativeDiscount ==
    \A i \in 1..Len(invoiceItems) : invoiceItems[i].discount >= 0

\* C6: every line satisfies total = unitPrice * quantity - discount, negative
\* or not, and a line appended by addItem carries the name, number and price
\* the selected part had in the loaded list when addItem ran, the quantity of
\* the form and the discount of the form.
C6_LineTotalFromSnapshot ==
    [][ /\ \A i \in 1..Len(invoiceItems') :
              LET line == invoiceItems'[i] IN
              line.total * Scale =
                  line.unitPrice * line.quantity - line.discount * Scale
        /\ (op' = "addItem" /\ Len(invoiceItems') = Len(invoiceItems) + 1) =>
              LET line == invoiceItems'[Len(invoiceItems')]
                  part == parts[FindIndexById(parts, selectedPart)]
              IN  /\ line.partId = selectedPart
                  /\ line.partName = part.name
                  /\ line.partNumber = part.partNumber
                  /\ line.unitPrice = part.price
                  /\ line.quantity = quantity
                  /\ line.discount = discount
      ]_vars

\* a line whose discount exceeds unitPrice * quantity is in the list with its
\* negative total
C6_Witness ==
    \E i \in 1..Len(invoiceItems) :
        /\ invoiceItems[i].discount * Scale
              > invoiceItems[i].unitPrice * invoiceItems[i].quantity
        /\ invoiceItems[i].total < 0

----------------------------------------------------------------------------
(* Properties of the bill and of the submission *)

\* the selected customer is a record of the loaded customers list
CustomerSelectedFrom(sel, list) ==
    /\ sel.type = "object"
    /\ \E i \in 1..Len(list) : list[i] = sel.obj

\* nobody was chosen: the initial {} or the "" of a reset form
NoCustomerChosen(sel) == sel = JSObject(EmptyObject) \/ sel = JSString("")

\* C7: a reload that changes the parts list or the customers list leaves
\* every existing invoice line and the generated bill (its customer, lines,
\* discount and total) unchanged.
C7_ReloadKeepsLinesAndBill ==
    [][ (parts' # parts \/ customers' # customers) =>
          (invoiceItems' = invoiceItems /\ currentBillData' = currentBillData)
      ]_vars

\* after reloads the list holds a line of a part that is no longer in the
\* catalog, a line whose price is not the part's current price, and the bill
\* generated for a customer who is no longer in the customers list as billed
C7_Witness ==
    /\ \E i \in 1..Len(invoiceItems) :
          ~Resolves(invoiceItems[i].partId, parts)
    /\ currentBillData # NoBill
    /\ \E i \in 1..Len(currentBillData.items) :
          LET line == currentBillData.items[i]
              k    == FindIndexById(parts, line.partId)
          IN  k = 0 \/ parts[k].price # line.unitPrice
    /\ currentBillData.customer.obj._id # Undefined
    /\ ~CustomerSelectedFrom(currentBillData.customer, customers)

\* C8: while no customer is chosen, handleGenerateBill and
\* handleCreateInvoice report an error, do not open the bill preview and
\* persist nothing, whatever the line list holds.
C8_MissingCustomerRejected ==
    [][ (op' \in {"handleGenerateBill", "handleCreateInvoice"}
         /\ NoCustomerChosen(selectedCustomer)) =>
          /\ toast' # ""
          /\ currentBillData' = currentBillData
          /\ isBillPreviewOpen' = isBillPreviewOpen
          /\ createInvoiceCall' = createInvoiceCall
      ]_vars

\* C9: with a customer of the list selected and no line, handleGenerateBill
\* and handleCreateInvoice report an error, do not open the bill preview and
\* issue no createInvoice call.
C9_EmptyInvoiceRejected ==
    [][ (op' \in {"handleGenerateBill", "handleCreateInvoice"}
         /\ CustomerSelectedFrom(selectedCustomer, customers)
         /\ Len(invoiceItems) = 0) =>
          /\ toast' = (IF op' = "handleGenerateBill"
                       THEN ErrGenerateBill ELSE ErrNoItems)
          /\ currentBillData' = currentBillData
          /\ isBillPreviewOpen' = isBillPreviewOpen
          /\ createInvoiceCall' = createInvoiceCall
      ]_vars

\* Generate Invoice was pressed with a customer of the list selected and no
\* line: the error is shown and no preview was ever opened
C9_Witness ==
    /\ op = "handleGenerateBill"
    /\ CustomerSelectedFrom(selectedCustomer, customers)
    /\ Len(invoiceItems) = 0
    /\ toast = ErrGenerateBill
    /\ currentBillData = NoBill

\* C10: handleCreateInvoice issues no createInvoice call for an invoice
\* without lines or without a customer of the loaded list, and every call it
\* issues carries a non-empty line list, a customer of the loaded list and
\* the totals of exactly those lines.
C10_NoInvalidInvoicePersisted ==
    [][ op' = "handleCreateInvoice" =>
          /\ (Len(invoiceItems) = 0
              \/ ~CustomerSelectedFrom(selectedCustomer, customers)) =>
                createInvoiceCall' = createInvoiceCall
          /\ createInvoiceCall' # createInvoiceCall =>
                LET call == createInvoiceCall'
                    n    == Len(call.items)
                IN  /\ n > 0
                    /\ call.items = invoiceItems
                    /\ \E i \in 1..Len(customers) : customers[i] = call.customer
                    /\ call.subtotal = SumTo(call.items, "total", n)
                    /\ call.discount = SumTo(call.items, "discount", n)
                    /\ call.tax * N(100) = call.subtotal * tax
                    /\ call.total = call.subtotal + call.tax - call.discount
      ]_vars

\* handleCreateInvoice ran on a non-empty line list while nobody of the list
\* was selected, and nothing was sent
C10_Witness ==
    /\ op = "handleCreateInvoice"
    /\ Len(invoiceItems) > 0
    /\ ~CustomerSelectedFrom(selectedCustomer, customers)
    /\ createInvoiceCall = NoCall

----------------------------------------------------------------------------
(* Properties of rejected and failed calls *)

\* the step is a call of addItem, handleGenerateBill or handleCreateInvoice
\* that rejected its input: it showed a validation error or returned early
Rejected ==
    \/ op' = "addItem"
         /\ (toast' = ErrAddItem \/ ~Resolves(selectedPart, parts))
    \/ op' = "handleGenerateBill" /\ toast' = ErrGenerateBill
    \/ op' = "handleCreateInvoice" /\ toast' \in {ErrNoCustomer, ErrNoItems, ""}

\* C11: whenever addItem, handleGenerateBill or handleCreateInvoice rejects
\* its input, invoiceItems, selectedPart, quantity, discount,
\* selectedCustomer, notes, invoiceNumber, currentBillData and
\* isBillPreviewOpen have the same values after the call as before it.
C11_RejectionKeepsState ==
    [][ Rejected =>
          /\ invoiceItems' = invoiceItems
          /\ selectedPart' = selectedPart
          /\ quantity' = quantity
          /\ discount' = discount
          /\ selectedCustomer' = selectedCustomer
          /\ notes' = notes
          /\ invoiceNumber' = invoiceNumber
          /\ currentBillData' = currentBillData
          /\ isBillPreviewOpen' = isBillPreviewOpen
      ]_vars

\* Generate Invoice was rejected for an empty line list while a customer, a
\* part, notes and a typed invoice number were in the form, and all of them
\* are still there
C11_Witness ==
    /\ op = "handleGenerateBill"
    /\ toast = ErrGenerateBill
    /\ CustomerSelectedFrom(selectedCustomer, customers)
    /\ selectedPart # ""
    /\ notes # ""
    /\ invoiceNumber # FirstInvoiceNumber

\* C12: a failed createInvoice call leaves selectedCustomer, invoiceItems,
\* notes and invoiceNumber unchanged, and handleCreateInvoice changes them
\* only with a successful call; a failed addCustomer call of the billing
\* page leaves the selected customer unchanged and the customer dialog as it
\* was (open); both failures show an error notification.
C12_FailureKeepsState ==
    [][ /\ (op' = "handleCreateInvoice" /\ toast' # OkCreateInvoice) =>
              /\ selectedCustomer' = selectedCustomer
              /\ invoiceItems' = invoiceItems
              /\ notes' = notes
              /\ invoiceNumber' = invoiceNumber
        /\ (op' = "handleCreateInvoice"
            /\ createInvoiceCall' # createInvoiceCall) =>
              toast' \in {OkCreateInvoice, ErrCreateInvoice}
        /\ (customerSubmit.step = "addCustomer"
            /\ customerSubmit'.step = "idle") =>
              /\ selectedCustomer' = selectedCustomer
              /\ isCustomerDialogOpen' = isCustomerDialogOpen
              /\ toast' = ErrAddCustomer
      ]_vars

\* addCustomer failed while the dialog was open, a customer of the list was
\* selected and a line was in the invoice: the error is shown, the dialog is
\* still open and the selection is still there
C12_Witness ==
    /\ op = "onCustomerSubmit"
    /\ toast = ErrAddCustomer
    /\ isCustomerDialogOpen
    /\ CustomerSelectedFrom(selectedCustomer, customers)
    /\ Len(invoiceItems) > 0

----------------------------------------------------------------------------
(* Properties of the line list *)

\* C13: when the index is negative or >= the length of the line list,
\* removeItem fails: no line is removed and the list is unchanged.
C13_InvalidIndexRejected ==
    [][ \A index \in (-MaxLines)..MaxLines :
          (removeItem(index) /\ (index < 0 \/ index >= Len(invoiceItems))) =>
              invoiceItems' = invoiceItems
      ]_vars

\* C14: addItem appends the new line at the end; removeItem with a valid
\* index i yields the previous list without its i-th element, the other
\* lines in their order, and the previous list value, which a generated bill
\* still holds, is not changed.
C14_InsertionOrderKept ==
    [][ /\ \A index \in 0..(Len(invoiceItems) - 1) :
              removeItem(index) =>
                  /\ Len(invoiceItems') = Len(invoiceItems) - 1
                  /\ \A j \in 1..index : invoiceItems'[j] = invoiceItems[j]
                  /\ \A j \in (index + 1)..(Len(invoiceItems) - 1) :
                        invoiceItems'[j] = invoiceItems[j + 1]
                  /\ currentBillData' = currentBillData
        /\ (op' = "addItem" /\ invoiceItems' # invoiceItems) =>
              /\ Len(invoiceItems') = Len(invoiceItems) + 1
              /\ SubSeq(invoiceItems', 1, Len(invoiceItems)) = invoiceItems
              /\ currentBillData' = currentBillData
      ]_vars

\* index 0 of a list of three different lines was removed after the bill was
\* generated: the other two lines are left in their order and the bill still
\* holds the three
C14_Witness ==
    /\ op = "removeItem"
    /\ currentBillData # NoBill
    /\ Len(currentBillData.items) = 3
    /\ Cardinality({currentBillData.items[i] : i \in 1..3}) = 3
    /\ invoiceItems = Tail(currentBillData.items)

----------------------------------------------------------------------------
(* Properties of the searches *)

\* q occurs in cs at some position, letters compared without regard to case
ContainsIgnoringCase(cs, q) ==
    \E off \in 0..(Len(cs) - Len(q)) :
        \A k \in 1..Len(q) : LowerCaseOf(cs[off + k]) = LowerCaseOf(q[k])

\* query is contained in one of the four searched fields of part
PartHit(part, query) ==
    \E field \in {"name", "partNumber", "category", "manufacturer"} :
        ContainsIgnoringCase(Chars(part[field]), Chars(query))

\* C15: the list the inventory page shows is exactly the loaded parts for
\* which the search text, compared case-insensitively, is a substring of
\* name, partNumber, category or manufacturer, in catalog order; the empty
\* text gives the full list and a text matching nothing the empty list.
C15_CatalogSearch ==
    LET page == inventoryPage
        Hit(part) == PartHit(part, page.searchTerm)
    IN  /\ page.filteredParts = SelectSeq(page.parts, Hit)
        /\ (page.searchTerm = "" => page.filteredParts = page.parts)
        /\ ((\A i \in 1..Len(page.parts) : ~Hit(page.parts[i]))
               => page.filteredParts = << >>)

\* "brake" over "Brake Pad" (category "Brakes") and "Oil Filter" shows
\* exactly the first part
C15_Witness ==
    /\ inventoryPage.searchTerm = "brake"
    /\ Len(inventoryPage.parts) = 2
    /\ inventoryPage.parts[1].name = "Brake Pad"
    /\ inventoryPage.parts[1].category = "Brakes"
    /\ inventoryPage.parts[2].name = "Oil Filter"
    /\ inventoryPage.filteredParts = << inventoryPage.parts[1] >>

\* query is contained in the name, the phone or an address subfield of c
CustomerHit(c, query) ==
    \/ ContainsIgnoringCase(Chars(c.name), Chars(query))
    \/ ContainsIgnoringCase(Chars(c.phone), Chars(query))
    \/ /\ "address" \in DOMAIN c
       /\ \E field \in {"street", "city", "state", "zipCode", "country"} :
             ContainsIgnoringCase(Chars(c.address[field]), Chars(query))

\* C16: the customer search returns exactly the loaded customers for which
\* the search text is a case-insensitive substring of name, phone or an
\* address subfield, the empty text returning all customers; stated here for
\* the customer picker of the billing page.
C16_CustomerSearch ==
    LET Hit(c) == CustomerHit(c, customerSearch)
    IN  /\ filteredCustomers = SelectSeq(customers, Hit)
        /\ (customerSearch = "" => filteredCustomers = customers)

----------------------------------------------------------------------------
(* Properties of reloads *)

\* C17: when a reload of the catalog or of the customers fails after both
\* lists were loaded (neither empty), the loaded lists are left untouched and stay
\* available to the page: a page body that was rendered (the pickers and
\* addItem working on those lists) is still rendered.
C17_StaleButAvailable ==
    [][ (/\ Len(parts) > 0
         /\ Len(customers) > 0
         /\ \/ (partsError' /\ ~partsError /\ ~isLoadingParts)
            \/ (customersError' /\ ~customersError /\ ~isLoadingCustomers)) =>
            /\ parts' = parts
            /\ customers' = customers
            /\ (PageRendered => PageRendered')
      ]_vars

\* C18: when the customers list has been reloaded after an add, update or
\* delete, the selected customer of the page is kept if that record is in the
\* reloaded list and is discarded if it is gone.
C18_SelectionFollowsReload ==
    [][ (customerPage.isFetching /\ ~customerPage'.isFetching
         /\ ~customerPage'.isError) =>
            LET selected == customerPage.selectedCustomer IN
            IF selected # Null /\ selected._id \notin IdsOf(customerPage'.customers)
            THEN customerPage'.selectedCustomer = Null
            ELSE customerPage'.selectedCustomer = selected
      ]_vars

\* ---------------------------------------------------------------------------
\* C19: a part mutation that succeeded invalidates the parts list, so a reload
\* is in flight after it; a part mutation that failed starts no reload and
\* does not close the dialog; and the dialog a mutation is sent from is still
\* open once the mutation is sent, so that a failure finds it open unless the
\* user closed it meanwhile.
PartMutationSent ==
    \/ /\ inventoryPage.pending = "none"
       /\ inventoryPage'.pending \in PartMutations
    \/ Len(inventoryPage'.deletes) > Len(inventoryPage.deletes)

PartMutationResolved ==
    /\ \/ /\ inventoryPage.pending \in PartMutations
          /\ inventoryPage'.pending = "none"
       \/ Len(inventoryPage'.deletes) < Len(inventoryPage.deletes)
    /\ op' \in PartMutations

PartErrorMessages == {ErrAddPart, ErrUpdatePart, ErrDeleteData}

C19_InvalidateOnSuccessOnly ==
    [][ /\ PartMutationSent => inventoryPage'.isDialogOpen
        /\ PartMutationResolved =>
              IF toast' \in PartErrorMessages
              THEN /\ inventoryPage'.isFetching = inventoryPage.isFetching
                   /\ inventoryPage'.isDialogOpen = inventoryPage.isDialogOpen
              ELSE inventoryPage'.isFetching
      ]_vars

-----------------------------------------------------------------------------
(* services/api: apiRequest, the API functions and withToastHandling *)

\* everything the three pages hold
pages == <<billingPage, inventoryPage, customerPage, invoicePage>>

\* localStorage.getItem(key) !== null
HasItem(key) == key \in DOMAIN localStorage

\* localStorage.setItem(key, value)
setItem(storage, key, value) ==
    [k \in (DOMAIN storage) \cup {key} |-> IF k = key THEN value ELSE storage[k]]

\* localStorage.removeItem(key)
removeStoredItem(storage, key) ==
    [k \in (DOMAIN storage) \ {key} |-> storage[k]]

\* What the server (or the network) answers to one request: fetch resolves or
\* rejects; a resolved response is ok (2xx) or not, and its body parses as
\* JSON or does not; message is the message field of a parsed error body,
\* "" when it has none.
Responses ==
    { [fetch |-> "resolved", ok |-> TRUE, status |-> 200, statusText |-> "OK",
       json |-> "parsed", message |-> ""],
      [fetch |-> "resolved", ok |-> TRUE, status |-> 204, statusText |-> "No Content",
       json |-> "invalid", message |-> ""],
      [fetch |-> "resolved", ok |-> FALSE, status |-> 404, statusText |-> "Not Found",
       json |-> "parsed", message |-> "No such record"],
      [fetch |-> "resolved", ok |-> FALSE, status |-> 500,
       statusText |-> "Internal Server Error", json |-> "parsed", message |-> ""],
      [fetch |-> "resolved", ok |-> FALSE, status |-> 502, statusText |-> "Bad Gateway",
       json |-> "invalid", message |-> ""],
      [fetch |-> "rejected", ok |-> FALSE, status |-> 0, statusText |-> "",
       json |-> "invalid", message |-> ""] }

\* the message of the TypeError a rejected fetch carries
FailedToFetch == "Failed to fetch"

\* the message of the SyntaxError response.json() throws on a body that is
\* not JSON
NotJson == "Unexpected end of JSON input"

\* the headers apiRequest sends: Authorization only for a truthy token
RequestHeaders ==
    IF HasItem("authToken") /\ localStorage["authToken"] # ""
    THEN [contentType |-> "application/json",
          authorization |-> "Bearer " \o localStorage["authToken"]]
    ELSE [contentType |-> "application/json"]

\* how an invocation ended
Returned == [outcome |-> "returned", message |-> ""]

Thrown(message) == [outcome |-> "thrown", message |-> message]

\* apiRequest without the test of response.ok
apiRequestIgnoringStatus(endpoint, method, data, response) ==
    [requests |-> << [endpoint |-> endpoint, method |-> method,
                      headers |-> RequestHeaders, body |-> data] >>,
     responses |-> <<response>>,
     result |->
        IF response.fetch = "rejected" THEN Thrown(FailedToFetch)
        ELSE IF response.json = "invalid" THEN Thrown(NotJson)
        ELSE Returned]

\* apiRequest(endpoint, method, data): one fetch; a response that is not ok throws
\* the message of its body, or `Error ${status}: ${statusText}`; the catch
\* logs and rethrows
apiRequest(endpoint, method, data, response) ==
    [requests |-> << [endpoint |-> endpoint, method |-> method,
                      headers |-> RequestHeaders, body |-> data] >>,
     responses |-> <<response>>,
     result |->
        IF response.fetch = "rejected" THEN Thrown(FailedToFetch)
        ELSE IF response.json = "invalid" THEN Thrown(NotJson)
        ELSE IF ~response.ok
             THEN Thrown(IF response.message # ""
                         THEN response.message
                         ELSE "Error " \o ToString(response.status) \o ": "
                                 \o response.statusText)
             ELSE Returned]

\* the parts functions call fetch themselves: no token, a fixed message when
\* the response is not ok, and res.json() only on an ok response (deletePart
\* does not read the body)
plainFetch(endpoint, method, data, response, failure, readsBody) ==
    [requests |-> << [endpoint |-> endpoint, method |-> method,
                      headers |-> IF method \in {"POST", "PUT"}
                                  THEN [contentType |-> "application/json"]
                                  ELSE << >>,
                      body |-> data] >>,
     responses |-> <<response>>,
     result |->
        IF response.fetch = "rejected" THEN Thrown(FailedToFetch)
        ELSE IF ~response.ok THEN Thrown(failure)
        ELSE IF readsBody /\ response.json = "invalid" THEN Thrown(NotJson)
        ELSE Returned]

\* the functions of services/api that go through apiRequest, with the
\* endpoint and the method each passes
ApiRequestFunctions ==
    { [name |-> "loginUser", endpoint |-> "/auth/login", method |-> "POST"],
      [name |-> "registerUser", endpoint |-> "/auth/register", method |-> "POST"],
      [name |-> "requestOtp", endpoint |-> "/auth/request-otp", method |-> "POST"],
      [name |-> "verifyOtp", endpoint |-> "/auth/verify-otp", method |-> "POST"],
      [name |-> "resetPassword", endpoint |-> "/auth/reset-password", method |-> "POST"],
      [name |-> "updatePassword", endpoint |-> "/auth/update-password", method |-> "POST"],
      [name |-> "fetchCustomers", endpoint |-> "/customers", method |-> "GET"],
      [name |-> "fetchCustomer", endpoint |-> "/customers/search", method |-> "GET"],
      [name |-> "updateCustomer", endpoint |-> "/customers/:id", method |-> "PUT"],
      [name |-> "deleteCustomer", endpoint |-> "/customers/:id", method |-> "DELETE"],
      [name |-> "fetchInvoices", endpoint |-> "/invoices", method |-> "GET"],
      [name |-> "createInvoice", endpoint |-> "/invoices", method |-> "POST"],
      [name |-> "getInvoiceById", endpoint |-> "/invoices/:id", method |-> "GET"],
      [name |-> "updateInvoiceStatus", endpoint |-> "/invoices/:id/status", method |-> "PUT"],
      [name |-> "deleteInvoice", endpoint |-> "/invoices/:id", method |-> "DELETE"],
      [name |-> "getInvoicesByCustomerId", endpoint |-> "/invoices/customer/:id",
       method |-> "GET"],
      [name |-> "getDashboardStats", endpoint |-> "/dashboard/stats", method |-> "GET"] }

\* fetchParts, addPart, updatePart, deletePart
PartFunctions ==
    { [name |-> "fetchParts", endpoint |-> "/products", method |-> "GET",
       failure |-> "Failed to fetch parts", readsBody |-> TRUE],
      [name |-> "addPart", endpoint |-> "/products", method |-> "POST",
       failure |-> "Failed to add part", readsBody |-> TRUE],
      [name |-> "updatePart", endpoint |-> "/products/:id", method |-> "PUT",
       failure |-> "Failed to update part", readsBody |-> TRUE],
      [name |-> "deletePart", endpoint |-> "/products/:id", method |-> "DELETE",
       failure |-> "Failed to delete part", readsBody |-> FALSE] }

\* the customers addCustomer is handed: a complete one, and the same with
\* one field empty or the address missing
CompleteCustomer ==
    [name |-> "Meena", phone |-> "+913",
     address |-> [street |-> "12 Lake Road", city |-> "Pune", state |-> "MH",
                  zipCode |-> "41100", country |-> "India"]]

AddressFields == {"street", "city", "state", "zipCode", "country"}

CustomerInputs ==
    {CompleteCustomer,
     [CompleteCustomer EXCEPT !.name = ""],
     [CompleteCustomer EXCEPT !.phone = ""],
     [CompleteCustomer EXCEPT !.address = Null]}
    \cup {[CompleteCustomer EXCEPT !.address[f] = ""] : f \in AddressFields}

\* the guard of addCustomer: name, phone, address, street and zipCode
MissingRequired(customer) ==
    \/ customer.name = ""
    \/ customer.phone = ""
    \/ customer.address = Null
    \/ customer.address.street = ""
    \/ customer.address.zipCode = ""

MissingFields == "All required customer fields are missing"

\* addCustomer(customer)
addCustomer(customer, response) ==
    IF MissingRequired(customer)
    THEN [requests |-> << >>, responses |-> << >>, result |-> Thrown(MissingFields)]
    ELSE apiRequest("/customers", "POST", customer, response)

\* the body a function of the two tables sends: the argument of a POST or a
\* PUT, named after the function, and none with a GET or a DELETE
BodyOf(f) ==
    IF f.method \in {"POST", "PUT"} THEN [argumentOf |-> f.name] ELSE Null

\* the record of an invocation of the function fn
Invocation(fn, call) ==
    [fn |-> fn, requests |-> call.requests, responses |-> call.responses,
     outcome |-> call.result.outcome, message |-> call.result.message,
     value |-> Null]

\* a function that goes through apiRequest is called directly
callApiFunction(f, response) ==
    /\ apiCall' = Invocation(f.name, apiRequest(f.endpoint, f.method, BodyOf(f), response))
    /\ op' = f.name
    /\ toast' = ""
    /\ UNCHANGED <<pages, localStorage, router, loginPage>>

\* one of the parts functions is called directly
callPartFunction(f, response) ==
    /\ apiCall' = Invocation(f.name, plainFetch(f.endpoint, f.method, BodyOf(f),
                                                response, f.failure, f.readsBody))
    /\ op' = f.name
    /\ toast' = ""
    /\ UNCHANGED <<pages, localStorage, router, loginPage>>

\* addCustomer is called directly
callAddCustomer(customer, response) ==
    /\ apiCall' = Invocation("addCustomer", addCustomer(customer, response))
    /\ op' = "addCustomer"
    /\ toast' = ""
    /\ UNCHANGED <<pages, localStorage, router, loginPage>>

\* the wrappers of useApiWithToast: the function each calls, its default
\* success message ("" when it has none) and its error message
Wrappers ==
    { [name |-> "loginWithToast", fn |-> "loginUser",
       success |-> "Login successful", error |-> "Login failed"],
      [name |-> "registerWithToast", fn |-> "registerUser",
       success |-> "Registration successful", error |-> "Registration failed"],
      [name |-> "fetchPartsWithToast", fn |-> "fetchParts",
       success |-> "", error |-> "Failed to fetch parts"],
      [name |-> "addPartWithToast", fn |-> "addPart",
       success |-> OkAddPart, error |-> ErrAddPart],
      [name |-> "updatePartWithToast", fn |-> "updatePart",
       success |-> OkUpdatePart, error |-> ErrUpdatePart],
      [name |-> "fetchCustomersWithToast", fn |-> "fetchCustomers",
       success |-> "", error |-> "Failed to fetch customers"],
      [name |-> "addCustomerWithToast", fn |-> "addCustomer",
       success |-> OkAddCustomer, error |-> ErrAddCustomer],
      [name |-> "updateCustomerWithToast", fn |-> "updateCustomer",
       success |-> "Customer updated successfully",
       error |-> "Failed to update customer"],
      [name |-> "deleteCustomerWithToast", fn |-> "deleteCustomer",
       success |-> "Customer deleted successfully",
       error |-> "Failed to delete customer"],
      [name |-> "deletedataWithToast", fn |-> "deletePart",
       success |-> "", error |-> ErrDeleteData],
      [name |-> "fetchInvoicesWithToast", fn |-> "fetchInvoices",
       success |-> "", error |-> "Failed to fetch invoices"],
      [name |-> "createInvoiceWithToast", fn |-> "createInvoice",
       success |-> OkCreateInvoice, error |-> ErrCreateInvoice],
      [name |-> "updateInvoiceStatusWithToast", fn |-> "updateInvoiceStatus",
       success |-> "Invoice status updated",
       error |-> "Failed to update invoice status"],
      [name |-> "deleteInvoiceWithToast", fn |-> "deleteInvoice",
       success |-> "Invoice deleted successfully",
       error |-> "Failed to delete invoice"] }

\* the call a wrapper makes
WrappedCall(w, customer, response) ==
    IF w.fn = "addCustomer" THEN addCustomer(customer, response)
    ELSE IF \E f \in PartFunctions : f.name = w.fn
         THEN LET f == CHOOSE f \in PartFunctions : f.name = w.fn IN
              plainFetch(f.endpoint, f.method, BodyOf(f), response, f.failure,
                         f.readsBody)
         ELSE LET f == CHOOSE f \in ApiRequestFunctions : f.name = w.fn IN
              apiRequest(f.endpoint, f.method, BodyOf(f), response)

\* the description of the toast withToastHandling shows for a call that
\* ended as result: successMessage if there is one, or
\* errorMessage || error.message || "An error occurred"
ToastOf(result, successMessage, errorMessage) ==
    IF result.outcome = "returned" THEN successMessage
    ELSE IF errorMessage # "" THEN errorMessage
    ELSE IF result.message # "" THEN result.message
    ELSE "An error occurred"

\* withToastHandling(apiCall, successMessage, errorMessage) through one of
\* the wrappers: one call, one toast, and the failure is thrown again
withToastHandling(w, customer, response) ==
    LET call == WrappedCall(w, customer, response) IN
    /\ apiCall' = Invocation(w.fn, call)
    /\ op' = w.name
    /\ toast' = ToastOf(call.result, w.success, w.error)
    /\ UNCHANGED <<pages, localStorage, router, loginPage>>

\* logout() of services/api
logout ==
    /\ localStorage' = removeStoredItem(removeStoredItem(removeStoredItem(
                           localStorage, "authToken"), "isAuthenticated"), "userData")
    /\ op' = "logout"
    /\ toast' = ""
    /\ apiCall' = [NoApiCall EXCEPT !.fn = "logout", !.outcome = "returned"]
    /\ UNCHANGED <<pages, router, loginPage>>

\* Every way the services/api layer is called
NextApi ==
    \/ \E f \in ApiRequestFunctions, response \in Responses :
          callApiFunction(f, response)
    \/ \E f \in PartFunctions, response \in Responses :
          callPartFunction(f, response)
    \/ \E customer \in CustomerInputs, response \in Responses :
          callAddCustomer(customer, response)
    \/ \E w \in Wrappers, customer \in CustomerInputs, response \in Responses :
          withToastHandling(w, customer, response)
    \/ logout

SpecApi == Init /\ [][NextApi]_vars

-----------------------------------------------------------------------------
\* C21 as stated: every invocation of an API function issues exactly one HTTP
\* request; a response that is not 2xx ends it with a thrown failure that
\* carries a message; withToastHandling reports that failure in a toast and
\* issues no further request.
WrapperNames == {w.name : w \in Wrappers}

NonOkEndsInFailure ==
    \A i \in 1..Len(apiCall.responses) :
        (apiCall.responses[i].fetch = "resolved" /\ ~apiCall.responses[i].ok)
            => apiCall.outcome = "thrown" /\ apiCall.message # ""

FailureReported ==
    (op \in WrapperNames /\ apiCall.outcome = "thrown") => toast # ""

C21_ExactlyOneRequest ==
    apiCall.fn # "" =>
        /\ Len(apiCall.requests) = 1
        /\ NonOkEndsInFailure
        /\ FailureReported

\* C21 amended: an invocation issues at most one HTTP request, and none only
\* when addCustomer rejects the customer before sending and in logout, which
\* only clears the stored session; the rest as stated.
C21_AtMostOneRequest ==
    apiCall.fn # "" =>
        /\ Len(apiCall.requests) <= 1
        /\ Len(apiCall.requests) = 0 =>
              \/ /\ apiCall.fn = "addCustomer"
                 /\ apiCall.outcome = "thrown"
                 /\ apiCall.message = MissingFields
              \/ /\ apiCall.fn = "logout"
                 /\ apiCall.outcome = "returned"
        /\ NonOkEndsInFailure
        /\ FailureReported

\* a wrapped call got a 404 and ended with the failure reported once
C21_Witness ==
    /\ op = "createInvoiceWithToast"
    /\ Len(apiCall.requests) = 1
    /\ ~apiCall.responses[1].ok
    /\ apiCall.responses[1].fetch = "resolved"
    /\ apiCall.outcome = "thrown"
    /\ apiCall.message = "No such record"
    /\ toast = ErrCreateInvoice

-----------------------------------------------------------------------------
\* C22: a POST to /customers issued by addCustomer carries a customer whose
\* name, phone and five address subfields are all non-empty; for any other
\* customer addCustomer fails before a request is made.
CompleteForPersistence(customer) ==
    /\ customer.name # ""
    /\ customer.phone # ""
    /\ customer.address # Null
    /\ \A f \in AddressFields : customer.address[f] # ""

C22_AllAddressFieldsRequired ==
    (apiCall.fn = "addCustomer" /\ Len(apiCall.requests) > 0) =>
        /\ apiCall.requests[1].endpoint = "/customers"
        /\ apiCall.requests[1].method = "POST"
        /\ CompleteForPersistence(apiCall.requests[1].body)

-----------------------------------------------------------------------------
(* The session: router, LoginPage.handleLogin, MainLayout.handleLogout *)
(* Routing decides which page is shown; what a page holds while it is   *)
(* shown is the subject of the specifications of the pages.             *)

\* the token a successful login answers with
Tokens == {"jwt-1"}

LoginOk == "Login successful"

LoginFailed == "Login failed"

LoggedOut == "You have been successfully logged out."

\* the handlers in flight once their component instance is gone: they run
\* on, but their state updates reach nothing
Unmounted(inFlight) == [j \in 1..Len(inFlight) |-> [inFlight[j] EXCEPT !.mounted = FALSE]]

\* LoginPage mounted afresh while earlier handlers are still in flight
LoginPageRemounted(inFlight) ==
    [LoginPageMounted EXCEPT !.inFlight = Unmounted(inFlight)]

LoginPageShown == router.location = "/"

MainLayoutShown == ElementAt(router.authenticated, router.location) = "MainLayout"

\* a handler that called an API function and awaits it: the function, the
\* body and the headers of its request, and the registrationData of the
\* render the handler belongs to
Awaiting(handler, fn, body, data) ==
    [handler |-> handler, awaiting |-> fn, body |-> body, headers |-> RequestHeaders,
     registrationData |-> data, mounted |-> TRUE]

\* the invocation an awaited call amounts to once response has arrived
Settled(entry, endpoint, response) ==
    LET call == apiRequest(endpoint, "POST", entry.body, response) IN
    Invocation(entry.awaiting,
               [call EXCEPT !.requests[1].headers = entry.headers])

\* the browser loads the application at path: the router is created and
\* LoginPage, if shown, is a new instance
loadApp(path) ==
    /\ router' = RouterCreated(localStorage, path)
    /\ loginPage' = LoginPageMounted
    /\ op' = "loadApp"
    /\ toast' = ""
    /\ UNCHANGED <<pages, localStorage, apiCall>>

\* a <Link> of MainLayout is clicked
clickLink(path) ==
    /\ MainLayoutShown
    /\ router' = Navigate(router, path)
    /\ op' = "Link"
    /\ toast' = ""
    /\ UNCHANGED <<pages, localStorage, apiCall, loginPage>>

\* handleLogin up to `await loginUser(values)`
handleLogin ==
    /\ LoginPageShown
    /\ ~loginPage.showOtpVerification
    /\ loginPage.activeTab = "login"
    /\ Len(loginPage.inFlight) < MaxInFlight
    /\ loginPage' =
          [loginPage EXCEPT !.inFlight =
              Append(@, Awaiting("handleLogin", "loginUser",
                                 [argumentOf |-> "loginUser"], Null))]
    /\ op' = "handleLogin"
    /\ toast' = ""
    /\ UNCHANGED <<pages, localStorage, apiCall, router>>

\* handleLogin after the await: the token is stored and navigate("/home"),
\* or the catch shows "Login failed"
loginUserSettled(i, response, token) ==
    /\ loginPage.inFlight[i].awaiting = "loginUser"
    /\ LET done == Settled(loginPage.inFlight[i], "/auth/login", response)
           rest == Without(loginPage.inFlight, i) IN
       /\ apiCall' = done
       /\ op' = "handleLogin"
       /\ IF done.outcome = "returned"
          THEN /\ localStorage' = setItem(localStorage, "authToken", token)
               /\ toast' = LoginOk
               /\ router' = Navigate(router, "/home")
               /\ loginPage' = LoginPageRemounted(rest)
          ELSE /\ toast' = LoginFailed
               /\ loginPage' = [loginPage EXCEPT !.inFlight = rest]
               /\ UNCHANGED <<localStorage, router>>
    /\ UNCHANGED pages

\* MainLayout.handleLogout
handleLogout ==
    /\ MainLayoutShown
    /\ localStorage' = removeStoredItem(localStorage, "isAuthenticated")
    /\ toast' = LoggedOut
    /\ router' = Navigate(router, "/")
    /\ loginPage' = LoginPageRemounted(loginPage.inFlight)
    /\ op' = "handleLogout"
    /\ UNCHANGED <<pages, apiCall>>

Paths == ProtectedPaths \cup {"/"}

\* Logging in and out and moving between the routes
NextSession ==
    \/ \E path \in Paths : loadApp(path)
    \/ \E path \in ProtectedPaths : clickLink(path)
    \/ handleLogin
    \/ \E i \in 1..Len(loginPage.inFlight), response \in Responses, token \in Tokens :
          loginUserSettled(i, response, token)
    \/ handleLogout

SpecSession == Init /\ [][NextSession]_vars

-----------------------------------------------------------------------------
(* LoginPage: registration with OTP *)

\* what the registration form is submitted with
RegisterValues ==
    { [fullName |-> "Asha", email |-> "asha@example.com"],
      [fullName |-> "Ravi", email |-> "ravi@example.com"] }

\* the code typed into the OTP form
Otps == {"123456"}

\* error.message of reading .email of null
NullEmail == "Cannot read properties of null (reading 'email')"

OtpSent == "Please check your email/phone for the verification code"

InvalidOtp == "Invalid OTP"

RegistrationOk == "Registration successful!"

TabsShown == LoginPageShown /\ ~loginPage.showOtpVerification

OtpFormShown == LoginPageShown /\ loginPage.showOtpVerification

\* <Tabs onValueChange={setActiveTab}>
setActiveTab(tab) ==
    /\ TabsShown
    /\ loginPage' = [loginPage EXCEPT !.activeTab = tab]
    /\ op' = ""
    /\ toast' = ""
    /\ UNCHANGED <<pages, localStorage, apiCall, router>>

\* handleRegister up to `await requestOtp(registrationData.email)`:
\* registrationData is the one of the render the handler was created in, so
\* not the values just handed to setRegistrationData; reading .email of null
\* throws into the catch
handleRegister(values) ==
    /\ TabsShown
    /\ loginPage.activeTab = "register"
    /\ Len(loginPage.inFlight) < MaxInFlight
    /\ op' = "handleRegister"
    /\ LET registrationData == loginPage.registrationData
           shown == [loginPage EXCEPT !.registrationData = values,
                                      !.showOtpVerification = TRUE] IN
       IF registrationData = Null
       THEN /\ loginPage' = shown
            /\ toast' = NullEmail
       ELSE /\ loginPage' =
                  [shown EXCEPT !.inFlight =
                      Append(@, Awaiting("handleRegister", "requestOtp",
                                         [email |-> registrationData.email],
                                         registrationData))]
            /\ toast' = ""
    /\ UNCHANGED <<pages, localStorage, apiCall, router>>

\* handleRegister after the await: the toast "OTP sent", or the toast of the
\* catch
requestOtpSettled(i, response) ==
    /\ loginPage.inFlight[i].awaiting = "requestOtp"
    /\ LET done == Settled(loginPage.inFlight[i], "/auth/request-otp", response) IN
       /\ apiCall' = done
       /\ toast' = IF done.outcome = "returned" THEN OtpSent ELSE done.message
    /\ loginPage' = [loginPage EXCEPT !.inFlight = Without(@, i)]
    /\ op' = "handleRegister"
    /\ UNCHANGED <<pages, localStorage, router>>

\* the Back button of the OTP form
backFromOtp ==
    /\ OtpFormShown
    /\ loginPage' = [loginPage EXCEPT !.showOtpVerification = FALSE]
    /\ op' = ""
    /\ toast' = ""
    /\ UNCHANGED <<pages, localStorage, apiCall, router>>

\* handleVerifyOTP up to `await verifyOtp(registrationData.email, values.otp)`
handleVerifyOTP(otp) ==
    /\ OtpFormShown
    /\ Len(loginPage.inFlight) < MaxInFlight
    /\ op' = "handleVerifyOTP"
    /\ LET registrationData == loginPage.registrationData IN
       IF registrationData = Null
       THEN /\ toast' = NullEmail
            /\ UNCHANGED loginPage
       ELSE /\ loginPage' =
                  [loginPage EXCEPT !.inFlight =
                      Append(@, Awaiting("handleVerifyOTP", "verifyOtp",
                                         [email |-> registrationData.email,
                                          otp |-> otp],
                                         registrationData))]
            /\ toast' = ""
    /\ UNCHANGED <<pages, localStorage, apiCall, router>>

\* Faulty variant of verifyOtpSettled: res.status is not looked at
verifyOtpSettledAnyStatus(i, response, status) ==
    /\ loginPage.inFlight[i].awaiting = "verifyOtp"
    /\ LET entry == loginPage.inFlight[i]
           done == Settled(entry, "/auth/verify-otp", response) IN
       IF done.outcome = "returned"
       THEN /\ apiCall' = [done EXCEPT !.value = [status |-> status]]
            /\ loginPage' =
                  [loginPage EXCEPT !.inFlight[i] =
                      [Awaiting("handleVerifyOTP", "registerUser",
                                entry.registrationData, entry.registrationData)
                          EXCEPT !.mounted = entry.mounted]]
            /\ toast' = ""
       ELSE /\ apiCall' = done
            /\ loginPage' = [loginPage EXCEPT !.inFlight = Without(@, i)]
            /\ toast' = done.message
    /\ op' = "handleVerifyOTP"
    /\ UNCHANGED <<pages, localStorage, router>>

\* handleVerifyOTP after `await verifyOtp`: with a truthy res.status it
\* calls registerUser(registrationData) and awaits it; otherwise "Invalid
\* OTP", or the failure of verifyOtp, goes to the toast of the catch
verifyOtpSettled(i, response, status) ==
    /\ loginPage.inFlight[i].awaiting = "verifyOtp"
    /\ LET entry == loginPage.inFlight[i]
           done == Settled(entry, "/auth/verify-otp", response) IN
       IF done.outcome = "returned"
       THEN /\ apiCall' = [done EXCEPT !.value = [status |-> status]]
            /\ IF status
               THEN /\ loginPage' =
                          [loginPage EXCEPT !.inFlight[i] =
                              [Awaiting("handleVerifyOTP", "registerUser",
                                        entry.registrationData,
                                        entry.registrationData)
                                  EXCEPT !.mounted = entry.mounted]]
                    /\ toast' = ""
               ELSE /\ loginPage' = [loginPage EXCEPT !.inFlight = Without(@, i)]
                    /\ toast' = InvalidOtp
       ELSE /\ apiCall' = done
            /\ loginPage' = [loginPage EXCEPT !.inFlight = Without(@, i)]
            /\ toast' = done.message
    /\ op' = "handleVerifyOTP"
    /\ UNCHANGED <<pages, localStorage, router>>

\* handleVerifyOTP after `await registerUser`: the OTP form is left for the
\* login tab with the e-mail as username, or the toast of the catch
registerUserSettled(i, response) ==
    /\ loginPage.inFlight[i].awaiting = "registerUser"
    /\ LET entry == loginPage.inFlight[i]
           done == Settled(entry, "/auth/register", response)
           rest == [loginPage EXCEPT !.inFlight = Without(@, i)] IN
       /\ apiCall' = done
       /\ IF done.outcome = "returned"
          THEN /\ toast' = RegistrationOk
               /\ loginPage' =
                     IF entry.mounted
                     THEN [rest EXCEPT !.showOtpVerification = FALSE,
                                       !.activeTab = "login",
                                       !.username = entry.registrationData.email]
                     ELSE rest
          ELSE /\ toast' = done.message
               /\ loginPage' = rest
    /\ op' = "handleVerifyOTP"
    /\ UNCHANGED <<pages, localStorage, router>>

\* Every event of the registration flow of LoginPage
NextRegistration ==
    \/ \E tab \in {"login", "register"} : setActiveTab(tab)
    \/ \E values \in RegisterValues : handleRegister(values)
    \/ \E i \in 1..Len(loginPage.inFlight), response \in Responses :
          requestOtpSettled(i, response)
    \/ backFromOtp
    \/ \E otp \in Otps : handleVerifyOTP(otp)
    \/ \E i \in 1..Len(loginPage.inFlight), response \in Responses,
          status \in BOOLEAN : verifyOtpSettled(i, response, status)
    \/ \E i \in 1..Len(loginPage.inFlight), response \in Responses :
          registerUserSettled(i, response)

SpecRegistration == Init /\ [][NextRegistration]_vars

-----------------------------------------------------------------------------
(* InvoicePage *)

\* the points of the time line the calendar offers
Dates == 1..4

\* what GET /invoices may answer
InvoiceLists ==
    { << >>,
      << [_id |-> "9", invoiceNumber |-> "INV-2026-001",
          customer |-> [name |-> "Asha"], createdAt |-> 2] >> }

\* texts a user can leave in the search field
InvoiceQueries == {"", "SUJ", "003", "inv-2026"}

\* the predicate of filteredInvoices
InvoiceMatches(invoice, page) ==
    LET q == ToLowerCase(Chars(page.searchQuery))
        matchesSearch ==
            IF page.searchQuery # ""
            THEN \/ Includes(ToLowerCase(Chars(invoice.invoiceNumber)), q)
                 \/ Includes(ToLowerCase(Chars(invoice.customer.name)), q)
            ELSE TRUE
        matchesDateRange ==
            IF page.startDate # NoDate /\ page.endDate # NoDate
            THEN invoice.createdAt > page.startDate /\ invoice.createdAt < page.endDate
            ELSE TRUE
    IN matchesSearch /\ matchesDateRange

\* a render of the page: filteredInvoices is recomputed; the card shows
\* "Loading", the error, "No invoices found", or the table, whose body maps
\* mockInvoices
RenderInvoices(page) ==
    LET Matches(invoice) == InvoiceMatches(invoice, page)
        filtered == SelectSeq(page.invoices, Matches) IN
    [page EXCEPT !.filteredInvoices = filtered,
                 !.rows = IF page.isLoading \/ page.isError \/ filtered = << >>
                          THEN << >>
                          ELSE MockInvoices]

\* everything but InvoicePage
besidesInvoicePage ==
    <<billingPage, inventoryPage, customerPage, localStorage, apiCall, router,
      loginPage>>

\* useQuery(["invoices"]) resolved
invoicesLoaded(list) ==
    /\ invoicePage.isLoading
    /\ invoicePage' = RenderInvoices([invoicePage EXCEPT !.invoices = list,
                                                         !.isLoading = FALSE])
    /\ op' = ""
    /\ toast' = ""
    /\ UNCHANGED besidesInvoicePage

\* useQuery(["invoices"]) rejected: data stays undefined, so invoices stays
\* mockInvoices
invoicesLoadFailed ==
    /\ invoicePage.isLoading
    /\ invoicePage' = RenderInvoices([invoicePage EXCEPT !.isLoading = FALSE,
                                                         !.isError = TRUE])
    /\ op' = ""
    /\ toast' = ""
    /\ UNCHANGED besidesInvoicePage

\* the search input: setSearchQuery(e.target.value)
setInvoiceSearchQuery(q) ==
    /\ invoicePage' = RenderInvoices([invoicePage EXCEPT !.searchQuery = q])
    /\ op' = ""
    /\ toast' = ""
    /\ UNCHANGED besidesInvoicePage

\* Faulty variant of handleDateSelect: an earlier date is not swapped with
\* the start
handleDateSelectNoSwap(date) ==
    /\ invoicePage' =
          RenderInvoices(
             IF invoicePage.startDate = NoDate
                \/ (invoicePage.startDate # NoDate /\ invoicePage.endDate # NoDate)
             THEN [invoicePage EXCEPT !.startDate = date, !.endDate = NoDate,
                                      !.selected = date]
             ELSE [invoicePage EXCEPT !.endDate = date, !.selected = date])
    /\ op' = "handleDateSelect"
    /\ toast' = ""
    /\ UNCHANGED besidesInvoicePage

\* Date range selection handler; date is NoDate when the calendar hands over
\* no date
handleDateSelect(date) ==
    /\ invoicePage' =
          RenderInvoices(
             IF invoicePage.startDate = NoDate
                \/ (invoicePage.startDate # NoDate /\ invoicePage.endDate # NoDate)
             THEN [invoicePage EXCEPT !.startDate = date, !.endDate = NoDate,
                                      !.selected = date]
             ELSE IF date # NoDate /\ date < invoicePage.startDate
                  THEN [invoicePage EXCEPT !.endDate = invoicePage.startDate,
                                           !.startDate = date, !.selected = date]
                  ELSE [invoicePage EXCEPT !.endDate = date, !.selected = date])
    /\ op' = "handleDateSelect"
    /\ toast' = ""
    /\ UNCHANGED besidesInvoicePage

\* Clear date filter
clearDateFilter ==
    /\ invoicePage' = RenderInvoices([invoicePage EXCEPT !.startDate = NoDate,
                                                         !.endDate = NoDate])
    /\ op' = "clearDateFilter"
    /\ toast' = ""
    /\ UNCHANGED besidesInvoicePage

\* Every event of InvoicePage
NextInvoices ==
    \/ \E list \in InvoiceLists : invoicesLoaded(list)
    \/ invoicesLoadFailed
    \/ \E q \in InvoiceQueries : setInvoiceSearchQuery(q)
    \/ \E date \in Dates \cup {NoDate} : handleDateSelect(date)
    \/ clearDateFilter

SpecInvoices == Init /\ [][NextInvoices]_vars

-----------------------------------------------------------------------------
\* C23: a navigation to a protected route ends on that route, with its page
\* rendered, if and only if an authToken is in localStorage at that moment;
\* so the navigate("/home") of a successful handleLogin shows the billing
\* page.
NavigatedToProtected ==
    /\ router'.requested \in ProtectedPaths
    /\ \/ op' \in {"loadApp", "Link"}
       \/ op' = "handleLogin" /\ toast' = LoginOk

C23_PageIffTokenPresent ==
    [][ NavigatedToProtected =>
           (router'.location = router'.requested
               <=> "authToken" \in DOMAIN localStorage') ]_vars

\* C24: once handleLogout has run no authToken is left in localStorage.
C24_LogoutEndsSession ==
    op = "handleLogout" => ~HasItem("authToken")

-----------------------------------------------------------------------------
\* C25: handleCreateInvoice, run while a customer of the list is selected
\* (picked in the picker or selected after being added) and the invoice has
\* lines, calls createInvoice with that customer and those lines, and the
\* call either succeeds, resetting the form, or fails with its error toast.
CustomerOfListSelected ==
    /\ selectedCustomer.type = "object"
    /\ \E i \in 1..Len(customers) : customers[i] = selectedCustomer.obj

C25_SelectedInvoicePersisted ==
    [][ (op' = "handleCreateInvoice" /\ CustomerOfListSelected
         /\ Len(invoiceItems) > 0) =>
            /\ createInvoiceCall' = InvoiceData(selectedCustomer.obj)
            /\ \/ toast' = ErrCreateInvoice
               \/ /\ toast' = OkCreateInvoice
                  /\ selectedCustomer' = JSString("")
                  /\ invoiceItems' = << >>
                  /\ notes' = ""
      ]_vars

-----------------------------------------------------------------------------
\* C26: registerUser is called only in the step in which verifyOtp returned
\* a truthy status, once, and with the registration data whose e-mail was
\* verified; when verifyOtp throws or returns a falsy status registerUser is
\* not called and the OTP form and the active tab stay as they are.
RECURSIVE CountAwaiting(_, _)
CountAwaiting(inFlight, fn) ==
    IF inFlight = << >> THEN 0
    ELSE (IF Head(inFlight).awaiting = fn THEN 1 ELSE 0)
            + CountAwaiting(Tail(inFlight), fn)

RegisterUserCalled ==
    CountAwaiting(loginPage'.inFlight, "registerUser")
        > CountAwaiting(loginPage.inFlight, "registerUser")

VerifyOtpAnswered ==
    /\ op' = "handleVerifyOTP"
    /\ apiCall'.fn = "verifyOtp"
    /\ Len(loginPage'.inFlight) <= Len(loginPage.inFlight)

VerifiedTruthy ==
    /\ VerifyOtpAnswered
    /\ apiCall'.outcome = "returned"
    /\ apiCall'.value.status

C26_RegisterOnlyAfterVerification ==
    [][ /\ RegisterUserCalled =>
              /\ VerifiedTruthy
              /\ CountAwaiting(loginPage'.inFlight, "registerUser")
                    = CountAwaiting(loginPage.inFlight, "registerUser") + 1
              /\ \E i \in 1..Len(loginPage'.inFlight) :
                    /\ loginPage'.inFlight[i].awaiting = "registerUser"
                    /\ loginPage.inFlight[i].awaiting = "verifyOtp"
                    /\ loginPage'.inFlight[i].body.email
                          = apiCall'.requests[1].body.email
        /\ (VerifyOtpAnswered /\ ~VerifiedTruthy) =>
              /\ ~RegisterUserCalled
              /\ loginPage'.showOtpVerification = loginPage.showOtpVerification
              /\ loginPage'.activeTab = loginPage.activeTab
      ]_vars

\* verifyOtp has returned a truthy status and registerUser is awaited with
\* the data of that e-mail
C26_Witness ==
    /\ op = "handleVerifyOTP"
    /\ apiCall.fn = "verifyOtp"
    /\ apiCall.outcome = "returned"
    /\ apiCall.value.status
    /\ \E i \in 1..Len(loginPage.inFlight) :
          /\ loginPage.inFlight[i].awaiting = "registerUser"
          /\ loginPage.inFlight[i].body.email = apiCall.requests[1].body.email
    /\ loginPage.showOtpVerification

\* C27: a submission of the registration form requests an OTP for the
\* e-mail of that submission, and the OTP form is not shown before that
\* request has succeeded.
RegisterSubmitted ==
    /\ op' = "handleRegister"
    /\ Len(loginPage'.inFlight) >= Len(loginPage.inFlight)

RequestOtpFailed ==
    /\ op' = "handleRegister"
    /\ Len(loginPage'.inFlight) < Len(loginPage.inFlight)
    /\ apiCall'.outcome = "thrown"

C27_OtpForSubmittedEmail ==
    [][ /\ RegisterSubmitted =>
              /\ Len(loginPage'.inFlight) = Len(loginPage.inFlight) + 1
              /\ LET sent == loginPage'.inFlight[Len(loginPage'.inFlight)] IN
                 /\ sent.awaiting = "requestOtp"
                 /\ sent.body.email = loginPage'.registrationData.email
              /\ ~loginPage'.showOtpVerification
        /\ RequestOtpFailed => ~loginPage'.showOtpVerification
      ]_vars

-----------------------------------------------------------------------------
\* C28: once the invoices are loaded the rows of the table are exactly the
\* invoices that pass the filter: the search text is empty or, compared
\* case-insensitively, a substring of the invoice number or of the customer
\* name; and, with both dates set, createdAt lies strictly between them.
InvoicePasses(invoice, page) ==
    /\ \/ page.searchQuery = ""
       \/ ContainsIgnoringCase(Chars(invoice.invoiceNumber), Chars(page.searchQuery))
       \/ ContainsIgnoringCase(Chars(invoice.customer.name), Chars(page.searchQuery))
    /\ (page.startDate # NoDate /\ page.endDate # NoDate) =>
          (page.startDate < invoice.createdAt /\ invoice.createdAt < page.endDate)

C28_RowsAreFilteredInvoices ==
    LET Passes(invoice) == InvoicePasses(invoice, invoicePage) IN
    (~invoicePage.isLoading /\ ~invoicePage.isError) =>
        invoicePage.rows = SelectSeq(invoicePage.invoices, Passes)

\* C29: whenever endDate is set, startDate is set and not after it; and a
\* date selected while both are set becomes the start of a new range.
DateRangeOrdered(page) ==
    page.endDate # NoDate =>
        /\ page.startDate # NoDate
        /\ page.startDate <= page.endDate

C29_DateRangeOrdered ==
    [][ /\ DateRangeOrdered(invoicePage')
        /\ (op' = "handleDateSelect" /\ invoicePage.startDate # NoDate
            /\ invoicePage.endDate # NoDate) =>
               /\ invoicePage'.startDate = invoicePage'.selected
               /\ invoicePage'.endDate = NoDate ]_vars

\* a date before the start was selected and became the start
C29_Witness ==
    /\ op = "handleDateSelect"
    /\ invoicePage.startDate = 1
    /\ invoicePage.selected = 1
    /\ invoicePage.endDate = 3

-----------------------------------------------------------------------------
\* C30: isEditMode is set exactly when selectedPart is; while the dialog is
\* open both agree with the dialog opened last; a submit in edit mode starts
\* an update of the part that dialog was opened for and otherwise an add; a
\* delete is of that part too, whatever mutation succeeded in between.
EditStateConsistent(page) ==
    /\ page.isEditMode <=> page.selectedPart # Null
    /\ page.isDialogOpen =>
          /\ page.isEditMode <=> page.opened # Null
          /\ page.selectedPart = page.opened

C30_SubmitForOpenedPart ==
    [][ /\ EditStateConsistent(inventoryPage')
        /\ op' = "onSubmit" =>
              IF inventoryPage.isEditMode
              THEN /\ inventoryPage'.pending = "updatePartMutation"
                   /\ inventoryPage.opened # Null
                   /\ inventoryPage'.target = inventoryPage.opened._id
              ELSE /\ inventoryPage'.pending = "addPartMutation"
                   /\ inventoryPage.opened = Null
        /\ op' = "handleDelete" =>
              /\ inventoryPage.opened # Null
              /\ inventoryPage'.deletes =
                    Append(inventoryPage.deletes, inventoryPage.opened._id)
      ]_vars

\* the update of the Oil Filter has just been submitted from the dialog
\* opened for it, while the delete of the Brake Pad is still under way
C30_Witness ==
    /\ op = "onSubmit"
    /\ inventoryPage.pending = "updatePartMutation"
    /\ inventoryPage.target = "p2"
    /\ inventoryPage.opened # Null
    /\ inventoryPage.opened._id = "p2"
    /\ inventoryPage.deletes = << "p1" >>


====
